---- MODULE Spec2Model ----
(***************************************************************************)
(* Tune-Stats dashboard: the filter predicate evaluator (filter_data), its *)
(* memoisation, and the update callbacks that call it.                     *)
(*                                                                         *)
(* Representation.                                                         *)
(*  - A Python str is a sequence of one-character strings, so that         *)
(*    substring tests, list membership and float() parsing are computed.   *)
(*  - A real number with at most two decimals is the integer 100 * r       *)
(*    (popularity 50 is 5000, energy 0.5 is 50, 18 seconds is 1800).       *)
(*  - A missing numeric cell (pd.NA in a Float64 column) and a missing     *)
(*    string cell (float NaN in a str column read from CSV) are tagged     *)
(*    records, as are the values a Dash input can deliver.                 *)
(***************************************************************************)
EXTENDS Integers, Sequences, FiniteSets, TLC

VARIABLES data, controls, cache, bodyRuns, last, nChanges, nCalls, first, second,
          modules, component_registry, failed_components, loaded, page

\* the table, the inputs, the cache and the results of the callbacks
filterVars == <<data, controls, cache, bodyRuns, last, nChanges, nCalls, first, second>>

\* the component modules and the page built from them
layoutVars == <<modules, component_registry, failed_components, loaded, page>>

vars == <<filterVars, layoutVars>>

-----------------------------------------------------------------------------
(* Bounds *)

MaxRows == 2
MaxEdits == 2
MaxChanges == 2
MaxCalls == 3

-----------------------------------------------------------------------------
(* Python strings used by the model *)

s_all == <<"a", "l", "l">>
s_pop == <<"p", "o", "p">>
s_kpop == <<"k", "-", "p", "o", "p">>
s_rock == <<"r", "o", "c", "k">>
s_A == <<"A">>
s_B == <<"B">>
s_abc == <<"a", "b", "c">>
s_empty == <<>>
s_brackets == <<"[", "]">>

\* the serialized list of one genre, "['g']", and of two, "['g', 'h']"
List1(g) == <<"[", "'">> \o g \o <<"'", "]">>
List2(g, h) == <<"[", "'">> \o g \o <<"'", ",", " ", "'">> \o h \o <<"'", "]">>

\* Python's  s in x  for two str values
IsSubstring(s, x) ==
    \E i \in 0..(Len(x) - Len(s)) : SubSeq(x, i + 1, i + Len(s)) = s

\* Python's  e in l  for a list l
InList(e, l) == \E i \in 1..Len(l) : l[i] = e

-----------------------------------------------------------------------------
(* Values delivered by the Dash inputs *)

Num(n) == [t |-> "num", v |-> n, s |-> <<>>, l |-> <<>>]
StrV(s) == [t |-> "str", v |-> 0, s |-> s, l |-> <<>>]
ListV(l) == [t |-> "list", v |-> 0, s |-> <<>>, l |-> l]
None == [t |-> "none", v |-> 0, s |-> <<>>, l |-> <<>>]

NoRaise == "none"

DigitChars == <<"0", "1", "2", "3", "4", "5", "6", "7", "8", "9">>

IsDigit(c) == \E n \in 1..10 : DigitChars[n] = c

DigitVal(c) == (CHOOSE n \in 1..10 : DigitChars[n] = c) - 1

RECURSIVE IntOf(_)
IntOf(s) ==
    IF s = <<>> THEN 0
    ELSE IntOf(SubSeq(s, 1, Len(s) - 1)) * 10 + DigitVal(s[Len(s)])

\* The decimal literals float() accepts among the strings of the model:
\* digits with at most one point and at least one digit.
IsDecimal(s) ==
    /\ \A i \in 1..Len(s) : IsDigit(s[i]) \/ s[i] = "."
    /\ Cardinality({i \in 1..Len(s) : s[i] = "."}) <= 1
    /\ \E i \in 1..Len(s) : IsDigit(s[i])
    /\ \A i \in 1..Len(s) : s[i] = "." => Len(s) - i <= 2

ParseDecimal(s) ==
    LET dots == {i \in 1..Len(s) : s[i] = "."}
    IN  IF dots = {} THEN IntOf(s) * 100
        ELSE LET d == CHOOSE i \in dots : TRUE
                 whole == SubSeq(s, 1, d - 1)
                 frac == SubSeq(s, d + 1, Len(s))
             IN  IntOf(whole) * 100
                   + (IF Len(frac) = 1 THEN IntOf(frac) * 10 ELSE IntOf(frac))

\* float(x): a number converts to itself, a str is parsed (ValueError when it
\* is not a literal), None and lists raise TypeError.
Float(x) ==
    CASE x.t = "num" -> [raised |-> NoRaise, v |-> x.v]
      [] x.t = "str" -> IF IsDecimal(x.s)
                        THEN [raised |-> NoRaise, v |-> ParseDecimal(x.s)]
                        ELSE [raised |-> "ValueError", v |-> 0]
      [] OTHER -> [raised |-> "TypeError", v |-> 0]

-----------------------------------------------------------------------------
(* Track records and tables *)

Val(n) == [na |-> FALSE, v |-> n]
NA == [na |-> TRUE, v |-> 0]
Text(s) == [na |-> FALSE, s |-> s]
NaN == [na |-> TRUE, s |-> <<>>]

Row(g, a, p, e, d, v, t, ms) ==
    [genres |-> g, artists |-> a, popularity |-> p, energy |-> e,
     danceability |-> d, valence |-> v, tempo |-> t, duration_ms |-> ms]

\* duration_ms holds milliseconds: 200 000 ms is the integer 20 000 000
Ms(n) == Val(n * 100)

row_pop ==
    Row(Text(List1(s_pop)), Text(s_A), Val(5000), Val(50), Val(50), Val(50),
        Val(11000), Ms(200000))

\* two genres, every value on the upper end of its default range
row_kpop ==
    Row(Text(List2(s_kpop, s_rock)), Text(s_B), Val(10000), Val(100), Val(100),
        Val(100), Val(22000), Ms(5400000))

\* no genre, every value on the lower end of its default range
row_no_genre ==
    Row(Text(s_brackets), Text(s_A), Val(0), Val(0), Val(0), Val(0),
        Val(0), Ms(18000))

\* genres and artists missing in the file
row_null_text ==
    Row(NaN, NaN, Val(2500), Val(25), Val(75), Val(40), Val(5500), Ms(300000))

\* popularity and duration missing in the file
row_null_numbers ==
    Row(Text(List1(s_rock)), Text(s_A), NA, Val(50), Val(50), Val(50),
        Val(11000), NA)

\* tempo above 220 BPM and duration one millisecond under 18 seconds
row_outside_defaults ==
    Row(Text(List1(s_rock)), Text(s_B), Val(6000), Val(60), Val(60), Val(60),
        Val(24000), Ms(17999))

Rows ==
    {row_pop, row_kpop, row_no_genre, row_null_text, row_null_numbers,
     row_outside_defaults}

\* the sequences of at most n different elements of S
RECURSIVE SeqsUpTo(_, _)
SeqsUpTo(S, n) ==
    IF n = 0 THEN {<<>>}
    ELSE LET shorter == SeqsUpTo(S, n - 1)
         IN  shorter \cup UNION {{Append(q, x) : x \in S \ {q[i] : i \in 1..Len(q)}} :
                                   q \in {p \in shorter : Len(p) = n - 1}}

Tables == SeqsUpTo(Rows, MaxRows)

-----------------------------------------------------------------------------
(* The filter controls: Filter_component.py FILTER_COMPONENT_IDS *)

RangeNames ==
    {"popularity_min", "popularity_max", "energy_min", "energy_max",
     "danceability_min", "danceability_max", "valence_min", "valence_max",
     "tempo_min", "tempo_max", "duration_min", "duration_max"}

CategoryNames == {"genre_multiselect_filter", "artist_multiselect_filter"}

FilterNames == CategoryNames \cup RangeNames

\* The values the filter component's layout gives its inputs: 'all' for both
\* dropdowns and the full range for every pair.
DefaultFilters ==
    [genre_multiselect_filter |-> ListV(<<s_all>>),
     artist_multiselect_filter |-> ListV(<<s_all>>),
     popularity_min |-> Num(0), popularity_max |-> Num(10000),
     energy_min |-> Num(0), energy_max |-> Num(100),
     danceability_min |-> Num(0), danceability_max |-> Num(100),
     valence_min |-> Num(0), valence_max |-> Num(100),
     tempo_min |-> Num(0), tempo_max |-> Num(22000),
     duration_min |-> Num(1800), duration_max |-> Num(540000)]

-----------------------------------------------------------------------------
(* filter_data: Filter_component.py lines 280-329                          *)
(*                                                                         *)
(* The frame state threaded through the body is                            *)
(*   arg     the rows of the object the caller passed,                     *)
(*   df      the rows of the object the local name df is bound to,         *)
(*   raised  the exception that ended the body, or NoRaise.                *)
(* The table has the columns of the dataset, so every                      *)
(*  "<column>" in df.columns  test of the body is true.                    *)
(***************************************************************************)

MsPerSecond == 1000

\* the element of a set of one element.  Only({e : x \in {v}}) is e with x
\* standing for the value of v, as after the Python assignment  x = v
Only(S) == CHOOSE x \in S : TRUE

Raise(st, exc) == [st EXCEPT !.raised = exc]

\* a copy taken one position off, as df.iloc[1:].copy() would
DfCopyOffByOne(T) ==
    [raised |-> NoRaise, arg |-> T, df |-> IF T = <<>> THEN T ELSE Tail(T)]

\* df = df.copy(): the local name is bound to a new object with equal rows
DfCopy(T) == [raised |-> NoRaise, arg |-> T, df |-> T]

\* the rows of a frame at the positions where the mask is true
RECURSIVE Take(_, _)
Take(rows, mask) ==
    IF rows = <<>> THEN <<>>
    ELSE (IF Head(mask) THEN <<Head(rows)>> ELSE <<>>)
           \o Take(Tail(rows), Tail(mask))

\* df = df[mask]: boolean indexing binds df to a new object
KeepRows(st, mask) == [st EXCEPT !.df = Take(st.df, mask)]

\* the lambda of line 289 on one cell x of the genres column:
\*   any(genre in x for genre in selected_genres) if x and x != "[]" else False
\* A NaN cell is truthy and differs from "[]", so  genre in x  raises.
GenreCellRaises(x) == x.na

GenreCellMask(x, selected) ==
    IF x.s # <<>> /\ x.s # s_brackets
    THEN \E i \in 1..Len(selected) : IsSubstring(selected[i], x.s)
    ELSE FALSE

\* the test of lines 287 and 293 with != ['all'] in place of  "all" not in
CategoryActiveExact(sel) == Len(sel.l) > 0 /\ sel.l # <<s_all>>

\* len(f) > 0 and "all" not in f
CategoryActive(sel) == Len(sel.l) > 0 /\ ~InList(s_all, sel.l)

\* lines 287-290
GenreFilter(st, F) ==
    LET sel == F.genre_multiselect_filter
    IN  IF st.raised # NoRaise THEN st
        ELSE IF sel.t # "list" THEN Raise(st, "TypeError")
        ELSE IF ~CategoryActive(sel) THEN st
        ELSE IF \E i \in 1..Len(st.df) : GenreCellRaises(st.df[i].genres)
             THEN Raise(st, "TypeError")
        ELSE KeepRows(st, [i \in 1..Len(st.df) |->
                             GenreCellMask(st.df[i].genres, sel.l)])

\* Series.isin: a missing cell is in no list
IsIn(x, values) == ~x.na /\ InList(x.s, values)

\* lines 293-294
ArtistFilter(st, F) ==
    LET sel == F.artist_multiselect_filter
    IN  IF st.raised # NoRaise THEN st
        ELSE IF sel.t # "list" THEN Raise(st, "TypeError")
        ELSE IF ~CategoryActive(sel) THEN st
        ELSE KeepRows(st, [i \in 1..Len(st.df) |->
                             IsIn(st.df[i].artists, sel.l)])

\* the comparison with > in place of >=
GtStrict(x, bound) == ~x.na /\ x.v > bound

\* column >= bound and column <= bound on one cell: pd.NA compares to pd.NA,
\* which boolean indexing treats as False
Ge(x, bound) == ~x.na /\ x.v >= bound
Le(x, bound) == ~x.na /\ x.v <= bound

\* one range filter, lines 298-299 (and 303-304, 308-309, 313-314, 318-319):
\*   df = df[df[col] >= float(lo)] ; df = df[df[col] <= float(hi)]
RangeFilter(st, col, lo, hi) ==
    IF st.raised # NoRaise THEN st
    ELSE IF Float(lo).raised # NoRaise THEN Raise(st, Float(lo).raised)
    ELSE LET s1 == KeepRows(st, [i \in 1..Len(st.df) |->
                                   Ge(st.df[i][col], Float(lo).v)])
         IN  IF Float(hi).raised # NoRaise THEN Raise(s1, Float(hi).raised)
             ELSE KeepRows(s1, [i \in 1..Len(s1.df) |->
                                  Le(s1.df[i][col], Float(hi).v)])

\* the duration comparison made on the stored milliseconds, without / 1000
InSecondsNoConversion(x, lo, hi) == ~x.na /\ x.v >= lo /\ x.v <= hi

\* (duration_ms / 1000 >= lo) & (duration_ms / 1000 <= hi) on one cell; the
\* quotient is compared exactly: ms / 1000 >= lo  iff  ms >= lo * 1000
InSeconds(x, lo, hi) ==
    ~x.na /\ x.v >= lo * MsPerSecond /\ x.v <= hi * MsPerSecond

\* lines 322-324
DurationFilter(st, F) ==
    IF st.raised # NoRaise THEN st
    ELSE IF Float(F.duration_min).raised # NoRaise
         THEN Raise(st, Float(F.duration_min).raised)
    ELSE IF Float(F.duration_max).raised # NoRaise
         THEN Raise(st, Float(F.duration_max).raised)
    ELSE KeepRows(st, [i \in 1..Len(st.df) |->
                         InSeconds(st.df[i].duration_ms,
                                   Float(F.duration_min).v,
                                   Float(F.duration_max).v)])

\* the statements of the body, the first one innermost: each works on the
\* frame state the one before it left
FilterBody(T, F) ==
    Only({DurationFilter(s7, F) : s7 \in
         {RangeFilter(s6, "tempo", F.tempo_min, F.tempo_max) : s6 \in
         {RangeFilter(s5, "valence", F.valence_min, F.valence_max) : s5 \in
         {RangeFilter(s4, "danceability", F.danceability_min, F.danceability_max) : s4 \in
         {RangeFilter(s3, "energy", F.energy_min, F.energy_max) : s3 \in
         {RangeFilter(s2, "popularity", F.popularity_min, F.popularity_max) : s2 \in
         {ArtistFilter(s1, F) : s1 \in
         {GenreFilter(s0, F) : s0 \in
         {DfCopy(T)}}}}}}}}})

\* a body that filters the caller's frame in place (drop(..., inplace=True)
\* on df without the copy of line 284)
filter_data_inplace(T, F) ==
    LET r == FilterBody(T, F) IN [r EXCEPT !.arg = r.df]

\* filter_data(df, **filters): the rows returned are .df, the state of the
\* caller's object after the call is .arg
filter_data(T, F) == FilterBody(T, F)

-----------------------------------------------------------------------------
(* Inputs of the bounded check *)

s_50 == <<"5", "0">>
s_0p5 == <<"0", ".", "5">>

\* the values, other than its default, each filter input is given
Alternatives ==
    [n \in FilterNames |->
       CASE n = "genre_multiselect_filter" ->
              {ListV(<<>>), ListV(<<s_pop>>), ListV(<<s_all, s_pop>>)}
         [] n = "artist_multiselect_filter" ->
              {ListV(<<>>), ListV(<<s_A>>), ListV(<<s_all, s_A>>)}
         [] n = "popularity_min" -> {Num(5000), StrV(s_50), None}
         [] n = "popularity_max" -> {Num(5000)}
         [] n = "energy_min" -> {StrV(s_0p5)}
         [] n = "energy_max" -> {Num(50)}
         [] n = "danceability_min" -> {StrV(s_abc)}
         [] n = "danceability_max" -> {Num(25)}
         [] n = "valence_min" -> {StrV(s_empty)}
         [] n = "valence_max" -> {Num(50)}
         [] n = "tempo_min" -> {Num(11000), Num(23000)}
         [] n = "tempo_max" -> {Num(11000)}
         [] n = "duration_min" -> {Num(20000)}
         [] n = "duration_max" -> {Num(20000)}]

\* the filter sets one input away from those of S, and S itself
EditOnce(S) ==
    S \cup UNION {{[F EXCEPT ![n] = a] : a \in Alternatives[n]} :
                    F \in S, n \in FilterNames}

\* the filter sets that differ from the defaults in at most k inputs
RECURSIVE FilterSetsUpTo(_)
FilterSetsUpTo(k) ==
    IF k = 0 THEN {DefaultFilters} ELSE EditOnce(FilterSetsUpTo(k - 1))

FilterSets == FilterSetsUpTo(MaxEdits)

-----------------------------------------------------------------------------
(* The chart controls passed to filter_data along with the filter values *)

Name(n) == [t |-> "name", v |-> 0, s |-> <<n>>, l |-> <<>>]

DefaultChartControls ==
    [design_a_futuristic_histogram_metric |-> Name("popularity"),
     design_a_futuristic_histogram_bins |-> Num(2000),
     tempo_energy_density_plot_tempo_min |-> Num(6000),
     tempo_energy_density_plot_tempo_max |-> Num(18000),
     tempo_energy_density_plot_genre_overlay |-> Name("none")]

ChartControlNames == DOMAIN DefaultChartControls

Restrict(f, S) == [k \in S |-> f[k]]

\* the 14 filter values among the current control values
Filters == Restrict(controls, FilterNames)

-----------------------------------------------------------------------------
(* Layout.py: the import of the component modules and layout()             *)

\* bound: how many component modules are broken at once
MaxBroken == 1

\* COMPONENTS_TO_LOAD, lines 14-34
COMPONENTS_TO_LOAD ==
    <<"filter_component", "data_cards", "data_table",
      "hit_formula_scatter_plot", "genre_sonic_fingerprint_heatmap",
      "artist_spotlight_radar_chart", "futuristic_histogram",
      "audio_feature_correlation_matrix", "tempo_energy_density_plot",
      "popularity_landscapes", "loudness_landscape",
      "audio_feature_distribution", "genre_popularity_comparison",
      "side_by_side_popularity", "musical_key_popularity",
      "artist_dna_comparison", "bar_chart", "dark_themed_visualization",
      "genre_evolution_sparklines">>

ComponentNames == {COMPONENTS_TO_LOAD[i] : i \in 1..Len(COMPONENTS_TO_LOAD)}

\* the components layout() places itself, line 78
CoreComponents == {"filter_component", "data_cards", "data_table"}

\* what a module does: "ok", "import_fails" (importlib.import_module or the
\* lookup of module.component raises) or "layout_raises" (component() raises)
ModuleStates == {"ok", "import_fails", "layout_raises"}

AllOk == [n \in ComponentNames |-> "ok"]

Broken(mods) == {n \in ComponentNames : mods[n] # "ok"}

\* the state of the process before Layout.py is imported
NothingLoaded ==
    /\ modules = AllOk
    /\ component_registry = <<>>
    /\ failed_components = <<>>
    /\ loaded = 0
    /\ page = [done |-> FALSE]

\* Python's  name in d  for a dict d, kept as the sequence of its keys in
\* insertion order
HasKey(d, name) == \E i \in 1..Len(d) : d[i] = name

\* one core component, lines 68-71 and 103-104: no try around the call
CoreItem(name, mods) ==
    [raised |-> IF mods[name] = "layout_raises" THEN "Exception" ELSE NoRaise,
     item |-> [kind |-> "component", name |-> name]]

\* one chart, lines 79-98: its card, or an error card when component() raises
ChartCard(name, mods, preview) ==
    IF mods[name] = "layout_raises"
    THEN [kind |-> "error_card", name |-> name, width |-> 50, edit |-> FALSE]
    ELSE [kind |-> "card", name |-> name, width |-> 50, edit |-> preview]

\* lines 75-98
ChartLayouts(reg, mods, preview) ==
    LET charts == SelectSeq(reg, LAMBDA n : n \notin CoreComponents)
    IN  [i \in 1..Len(charts) |-> ChartCard(charts[i], mods, preview)]

\* the core components in the order layout() calls them
CoreCalls(reg) ==
    SelectSeq(<<"filter_component", "data_cards", "data_table">>,
              LAMBDA n : HasKey(reg, n))

\* layout(preview), lines 49-117, on the registry and the failures the
\* import loop left: the items of the page, or the exception that ends it
layout(reg, failed, mods, preview) ==
    LET core == CoreCalls(reg)
        raising == SelectSeq(core, LAMBDA n : CoreItem(n, mods).raised # NoRaise)
        before == SelectSeq(core, LAMBDA n : n # "data_table")
        after == SelectSeq(core, LAMBDA n : n = "data_table")
    IN  IF raising # <<>>
        THEN [done |-> TRUE, raised |-> CoreItem(raising[1], mods).raised,
              at |-> raising[1], items |-> <<>>]
        ELSE [done |-> TRUE, raised |-> NoRaise, at |-> "",
              items |->
                <<[kind |-> "hero"]>>
                \o [i \in 1..Len(before) |-> CoreItem(before[i], mods).item]
                \o <<[kind |-> "row",
                      children |-> ChartLayouts(reg, mods, preview)]>>
                \o [i \in 1..Len(after) |-> CoreItem(after[i], mods).item]
                \o (IF failed # <<>>
                    THEN <<[kind |-> "import_errors", names |-> failed]>>
                    ELSE <<>>)]

-----------------------------------------------------------------------------
(* SpecFilter: filter_data applied to a table, and again to its own result *)

NotCalled == [done |-> FALSE, raised |-> NoRaise, df |-> <<>>]

Returned(r) == [done |-> TRUE, raised |-> r.raised,
                df |-> IF r.raised = NoRaise THEN r.df ELSE <<>>]

InitFilter ==
    /\ data \in Tables
    /\ controls \in {F @@ DefaultChartControls : F \in FilterSets}
    /\ cache = <<>>
    /\ bodyRuns = 0
    /\ last = NotCalled
    /\ nChanges = 0
    /\ nCalls = 0
    /\ first = NotCalled
    /\ second = NotCalled
    /\ NothingLoaded

\* out = filter_data(T, F)
FilterOnce ==
    /\ ~first.done
    /\ \E r \in {filter_data(data, Filters)} :
           /\ first' = Returned(r)
           /\ data' = r.arg
    /\ UNCHANGED <<controls, cache, bodyRuns, last, nChanges, nCalls, second>>
    /\ UNCHANGED layoutVars

\* filter_data(out, F)
FilterTwice ==
    /\ first.done /\ first.raised = NoRaise
    /\ ~second.done
    /\ \E r \in {filter_data(first.df, Filters)} :
           /\ second' = Returned(r)
           /\ first' = [first EXCEPT !.df = r.arg]
    /\ UNCHANGED <<data, controls, cache, bodyRuns, last, nChanges, nCalls>>
    /\ UNCHANGED layoutVars

NextFilter == FilterOnce \/ FilterTwice

SpecFilter == InitFilter /\ [][NextFilter]_vars

-----------------------------------------------------------------------------
(* What the filter predicates mean, stated on one row *)

\* min <= value <= max on a present value
Within(x, lo, hi) == ~x.na /\ lo <= x.v /\ x.v <= hi

\* the six range predicates of a filter set whose bounds are numbers or
\* decimal literals; duration bounds are seconds, the stored value milliseconds
SatisfiesRanges(r, F) ==
    /\ Within(r.popularity, Float(F.popularity_min).v, Float(F.popularity_max).v)
    /\ Within(r.energy, Float(F.energy_min).v, Float(F.energy_max).v)
    /\ Within(r.danceability, Float(F.danceability_min).v, Float(F.danceability_max).v)
    /\ Within(r.valence, Float(F.valence_min).v, Float(F.valence_max).v)
    /\ Within(r.tempo, Float(F.tempo_min).v, Float(F.tempo_max).v)
    /\ Within(r.duration_ms, Float(F.duration_min).v * 1000,
              Float(F.duration_max).v * 1000)

\* a selection that restricts: not empty and without the 'all' sentinel
Restricts(sel) == sel.l # <<>> /\ \A i \in 1..Len(sel.l) : sel.l[i] # s_all

\* the genre predicate: some selected genre occurs in the serialized list
GenreSelected(r, sel) ==
    /\ ~r.genres.na /\ r.genres.s # <<>> /\ r.genres.s # s_brackets
    /\ \E i \in 1..Len(sel.l) : IsSubstring(sel.l[i], r.genres.s)

\* the artist predicate: the artists field equals one of the selected values
ArtistSelected(r, sel) ==
    ~r.artists.na /\ \E i \in 1..Len(sel.l) : sel.l[i] = r.artists.s

GenreOk(r, F) ==
    Restricts(F.genre_multiselect_filter) => GenreSelected(r, F.genre_multiselect_filter)

ArtistOk(r, F) ==
    Restricts(F.artist_multiselect_filter) => ArtistSelected(r, F.artist_multiselect_filter)

RangeBoundsNumeric(F) == \A n \in RangeNames : Float(F[n]).raised = NoRaise

SelectionsAreLists(F) == \A n \in CategoryNames : F[n].t = "list"

Inverted(F, lo, hi) == Float(F[lo]).v > Float(F[hi]).v

SomeRangeInverted(F) ==
    \/ Inverted(F, "popularity_min", "popularity_max")
    \/ Inverted(F, "energy_min", "energy_max")
    \/ Inverted(F, "danceability_min", "danceability_max")
    \/ Inverted(F, "valence_min", "valence_max")
    \/ Inverted(F, "tempo_min", "tempo_max")
    \/ Inverted(F, "duration_min", "duration_max")

FirstReturned == first.done /\ first.raised = NoRaise

-----------------------------------------------------------------------------
(* Claims about filter_data, checked under SpecFilter *)

C2_IdentityOnEveryTable ==
    first.done /\ Filters = DefaultFilters
        => first.raised = NoRaise /\ first.df = data

\* a row none of whose six range-filtered values is missing or outside the
\* default ranges: popularity [0,100], energy, danceability and valence
\* [0.0,1.0], tempo [0,220], duration [18,5400] seconds
InsideDefaultRanges(r) ==
    /\ Within(r.popularity, 0, 10000)
    /\ Within(r.energy, 0, 100)
    /\ Within(r.danceability, 0, 100)
    /\ Within(r.valence, 0, 100)
    /\ Within(r.tempo, 0, 22000)
    /\ Within(r.duration_ms, 1800 * 1000, 540000 * 1000)

\* C2 amended: filter_data(T, F0) returns, unchanged and in order, exactly
\* the rows of T whose six range-filtered values are all present and inside
\* the default ranges; it returns every row of T when T has no other row.
C2_IdentityOnRowsInsideDefaults ==
    first.done /\ Filters = DefaultFilters
        => /\ first.raised = NoRaise
           /\ first.df = SelectSeq(data, InsideDefaultRanges)
           /\ (\A i \in 1..Len(data) : InsideDefaultRanges(data[i]))
                 => first.df = data

C2_Witness ==
    /\ first.done /\ Filters = DefaultFilters
    /\ Len(data) >= 2
    /\ first.df = data
    /\ \E i \in 1..Len(data) : data[i].popularity.v = 0

\* C3: filter_data(T, F) returns exactly the rows of T for which the six
\* inclusive range predicates and every active category predicate hold; a
\* row with a missing range-filtered value is excluded.
C3_ExactlySatisfyingRows ==
    FirstReturned =>
        /\ first.df = SelectSeq(data, LAMBDA r :
                          /\ SatisfiesRanges(r, Filters)
                          /\ GenreOk(r, Filters)
                          /\ ArtistOk(r, Filters))
        /\ \A i \in 1..Len(first.df) :
              \A c \in {"popularity", "energy", "danceability", "valence",
                        "tempo", "duration_ms"} : ~first.df[i][c].na

C3_Witness ==
    /\ FirstReturned
    /\ Filters.duration_min # DefaultFilters.duration_min
    /\ first.df # <<>>
    /\ \E i \in 1..Len(data) :
          /\ ~data[i].duration_ms.na
          /\ data[i].duration_ms.v < Float(Filters.duration_min).v * 1000
          /\ data[i].duration_ms.v > Float(Filters.duration_max).v

\* C5: a genre or artist selection that is empty or contains 'all' imposes
\* no restriction, even with other values beside 'all'; otherwise the artist
\* filter keeps exactly the rows whose artists field is a selected value.
C5_CategoryFilters ==
    FirstReturned =>
        /\ ~Restricts(Filters.genre_multiselect_filter)
              => first.df = SelectSeq(data, LAMBDA r :
                     SatisfiesRanges(r, Filters) /\ ArtistOk(r, Filters))
        /\ ~Restricts(Filters.artist_multiselect_filter)
              => first.df = SelectSeq(data, LAMBDA r :
                     SatisfiesRanges(r, Filters) /\ GenreOk(r, Filters))
        /\ Restricts(Filters.artist_multiselect_filter)
              => first.df = SelectSeq(data, LAMBDA r :
                     /\ ArtistSelected(r, Filters.artist_multiselect_filter)
                     /\ SatisfiesRanges(r, Filters) /\ GenreOk(r, Filters))

C5_Witness ==
    /\ FirstReturned
    /\ Filters.genre_multiselect_filter = ListV(<<s_all, s_pop>>)
    /\ Filters.artist_multiselect_filter = ListV(<<s_A>>)
    /\ \E i \in 1..Len(first.df) : first.df[i].genres.s = s_brackets
    /\ Len(first.df) < Len(data)

\* C6: filter_data never mutates its input: a call leaves the table that
\* was passed in with the rows it had before the call.
C6_InputNotMutated ==
    [][data' = data /\ (first.done => first'.df = first.df)]_vars

C6_Witness ==
    /\ second.done
    /\ Len(second.df) < Len(data)

-----------------------------------------------------------------------------
(* The parsers of the genres column, one per component                     *)

Brackets == {"[", "]"}
Quotes == {"'", "\""}
\* the whitespace of the strings considered
Whitespace == {" "}

\* str.lstrip(chars), str.rstrip(chars) and, below, str.strip(chars)
RECURSIVE LStrip(_, _)
LStrip(s, chars) ==
    IF s # <<>> /\ s[1] \in chars THEN LStrip(Tail(s), chars) ELSE s

RECURSIVE RStrip(_, _)
RStrip(s, chars) ==
    IF s # <<>> /\ s[Len(s)] \in chars
    THEN RStrip(SubSeq(s, 1, Len(s) - 1), chars) ELSE s

\* a strip that removes nothing
StripNothing(s, chars) == s

Strip(s, chars) == RStrip(LStrip(s, chars), chars)

\* str.replace(c, "") for every c of chars
Remove(s, chars) == SelectSeq(s, LAMBDA c : c \notin chars)

\* the positions of s where sep starts
Occurrences(s, sep) ==
    {i \in 1..(Len(s) - Len(sep) + 1) : SubSeq(s, i, i + Len(sep) - 1) = sep}

\* str.split(sep) for the separators of the components, "," and ", ": two
\* occurrences of such a separator never overlap, so the pieces are those
\* left and right of any one occurrence (here the middle one)
RECURSIVE Split(_, _)
Split(s, sep) ==
    IF Occurrences(s, sep) = {} THEN <<s>>
    ELSE
         Only({Split(SubSeq(s, 1, i - 1), sep)
                  \o Split(SubSeq(s, i + Len(sep), Len(s)), sep) :
               i \in {CHOOSE k \in Occurrences(s, sep) :
                        Cardinality({j \in Occurrences(s, sep) : j < k})
                           = Cardinality(Occurrences(s, sep)) \div 2}})

\* [g for g in genres if g]
NonEmpty(pieces) == SelectSeq(pieces, LAMBDA g : g # <<>>)

\* [g.strip().strip("'\"") for g in pieces]
StripQuoted(pieces) ==
    [i \in 1..Len(pieces) |-> Strip(Strip(pieces[i], Whitespace), Quotes)]

\* [g.strip() for g in pieces]
Stripped(pieces) == [i \in 1..Len(pieces) |-> Strip(pieces[i], Whitespace)]

\* strip('[]'), split(','), strip().strip("'\""), drop the empty pieces
StripSplitStrip(s) ==
    LET genres_str == Strip(s, Brackets)
    IN  IF genres_str = <<>> THEN <<>>
        ELSE NonEmpty(StripQuoted(Split(genres_str, <<",">>)))

\* a parse that does not skip the empty list
parse_evolution_no_skip(cell) ==
    IF cell.na THEN <<>>
    ELSE StripQuoted(Split(Strip(cell.s, Brackets), <<",">>))

\* Genre_Evolution_line_chart.py lines 170-193: the genres new rows are
\* made for; a missing value is skipped by pd.isna
parse_evolution(cell) ==
    IF cell.na \/ cell.s = s_brackets THEN <<>> ELSE StripSplitStrip(cell.s)

\* Filter_component.py lines 68-79, over df["genres"].dropna()
parse_filter_options(cell) ==
    IF cell.na \/ cell.s = <<>> \/ cell.s = s_brackets THEN <<>>
    ELSE StripSplitStrip(cell.s)

\* Genre_fingerprint_chart.py lines 115-139: NaN is true, NaN.strip raises
\* AttributeError inside the try, and the row is skipped
parse_fingerprint(cell) ==
    IF cell.na THEN [caught |-> "AttributeError", genres |-> <<>>]
    ELSE IF cell.s = <<>> \/ cell.s = s_brackets
    THEN [caught |-> NoRaise, genres |-> <<>>]
    ELSE [caught |-> NoRaise, genres |-> StripSplitStrip(cell.s)]

\* Popularity_landscapes_chart.py lines 217-231
parse_ridgeline(cell) ==
    IF cell.na \/ cell.s = s_brackets THEN <<>>
    ELSE LET genres_clean == Remove(Strip(cell.s, Brackets), Quotes)
         IN  IF genres_clean = <<>> THEN <<>>
             ELSE NonEmpty(Stripped(Split(genres_clean, <<",">>)))

\* Audio_feature_box_plot_chart.py lines 207-221: no test for a missing
\* value and no try, NaN.strip raises AttributeError
parse_box_plot(cell) ==
    IF cell.na THEN [raised |-> "AttributeError", genres |-> <<>>]
    ELSE IF cell.s = s_brackets THEN [raised |-> NoRaise, genres |-> <<>>]
    ELSE [raised |-> NoRaise,
          genres |-> NonEmpty(Stripped(
                        Split(Remove(Strip(cell.s, Brackets), Quotes), <<",", " ">>)))]

\* a Python string literal without escapes
IsStringLiteral(p) ==
    /\ Len(p) >= 2
    /\ p[1] \in Quotes
    /\ p[Len(p)] = p[1]
    /\ \A i \in 2..(Len(p) - 1) : p[i] # p[1]

\* eval(x) on the strings of the tables considered: a list display of string
\* literals gives the list of their values, the empty string raises
\* SyntaxError and a bare word raises NameError
Eval(s) ==
    IF Len(s) >= 2 /\ s[1] = "[" /\ s[Len(s)] = "]"
    THEN LET inner == Strip(SubSeq(s, 2, Len(s) - 1), Whitespace)
             pieces == IF inner = <<>> THEN <<>>
                       ELSE Stripped(Split(inner, <<",">>))
         IN  IF \A i \in 1..Len(pieces) : IsStringLiteral(pieces[i])
             THEN [raised |-> NoRaise,
                   list |-> [i \in 1..Len(pieces) |->
                               SubSeq(pieces[i], 2, Len(pieces[i]) - 1)]]
             ELSE [raised |-> "SyntaxError", list |-> <<>>]
    ELSE [raised |-> IF Strip(s, Whitespace) = <<>> THEN "SyntaxError" ELSE "NameError",
          list |-> <<>>]

\* Tempo_energy_chart.py lines 257-265: the genres one row adds to
\* all_genres; NaN is true, eval(NaN) raises TypeError, and the bare except
\* skips the row
parse_overlay(cell) ==
    IF cell.na THEN [caught |-> "TypeError", genres |-> <<>>]
    ELSE IF cell.s = <<>> \/ cell.s = s_brackets
    THEN [caught |-> NoRaise, genres |-> <<>>]
    ELSE [caught |-> Eval(cell.s).raised, genres |-> Eval(cell.s).list]

\* Hit_formula_scatter_chart.py lines 118-120: genre_display of one row
\* that passed dropna(subset=[..., 'genres']); no try around eval
genre_display(cell) ==
    IF cell.s = s_brackets
    THEN [raised |-> NoRaise, genre |-> <<"N", "o", " ", "G", "e", "n", "r", "e">>]
    ELSE IF Eval(cell.s).raised # NoRaise
    THEN [raised |-> Eval(cell.s).raised, genre |-> <<>>]
    ELSE IF Len(Eval(cell.s).list) > 0
    THEN [raised |-> NoRaise, genre |-> Eval(cell.s).list[1]]
    ELSE [raised |-> NoRaise, genre |-> <<"N", "o", " ", "G", "e", "n", "r", "e">>]

\* the smallest and the largest of a non-empty sequence of numbers
Min(values) == CHOOSE x \in {values[i] : i \in 1..Len(values)} :
                   \A i \in 1..Len(values) : x <= values[i]
Max(values) == CHOOSE x \in {values[i] : i \in 1..Len(values)} :
                   \A i \in 1..Len(values) : x >= values[i]

\* the concatenation of a sequence of sequences
RECURSIVE Flatten(_)
Flatten(ss) == IF ss = <<>> THEN <<>> ELSE Head(ss) \o Flatten(Tail(ss))

\* Python's  x in l  for a list l
InSeq(x, l) == \E i \in 1..Len(l) : l[i] = x

-----------------------------------------------------------------------------
(* The memoised filter_data and the callbacks that call it                 *)
(*                                                                         *)
(* A callback runs in an environment                                       *)
(*   cache  the entries of the memoisation store of filter_data,           *)
(*   runs   how often the body of filter_data has run,                     *)
(*   data   the rows of the table get_data() returns.                      *)
(***************************************************************************)

Env(c, runs, T) == [cache |-> c, runs |-> runs, data |-> T]

\* The store behind cache.memoize(): entries are kept until the process
\* ends.  Its configuration is not part of the components; it is modelled
\* from the description of the cache as process-wide and never invalidated.
CacheHas(c, k) == k \in DOMAIN c
CacheGet(c, k) == c[k]
CacheSet(c, k, rows) == (k :> rows) @@ c

\* a key that leaves the genre selection out
MemoKeyWithoutGenre(kwargs) ==
    Restrict(kwargs, DOMAIN kwargs \ {"genre_multiselect_filter"})

\* @cache.memoize() on filter_data(df, **filters): the key is made of the
\* arguments of the call; df is get_data() at every call site, so the key is
\* the keyword arguments, every one the caller passes
MemoKey(kwargs) == kwargs

\* the decorated filter_data when the store has no entry for the call: the
\* body runs, and what it returns is stored under the key
MemoizeMiss(env, kwargs) ==
    Only({[env |-> [cache |-> IF r.raised = NoRaise
                              THEN CacheSet(env.cache, MemoKey(kwargs), r.df)
                              ELSE env.cache,
                    runs |-> env.runs + 1,
                    data |-> r.arg],
           raised |-> r.raised,
           df |-> IF r.raised = NoRaise THEN r.df ELSE <<>>,
           hit |-> FALSE] :
          r \in {filter_data(env.data, kwargs)}})

\* a memoisation that serves an entry of the store whatever the arguments
Memoized_filter_data_any_entry(env, kwargs) ==
    IF DOMAIN env.cache # {}
    THEN [env |-> env, raised |-> NoRaise,
          df |-> CacheGet(env.cache, CHOOSE k \in DOMAIN env.cache : TRUE),
          hit |-> TRUE]
    ELSE MemoizeMiss(env, kwargs)

\* a call of the decorated filter_data(get_data(), **kwargs)
Memoized_filter_data(env, kwargs) ==
    IF CacheHas(env.cache, MemoKey(kwargs))
    THEN [env |-> env, raised |-> NoRaise,
          df |-> CacheGet(env.cache, MemoKey(kwargs)), hit |-> TRUE]
    ELSE MemoizeMiss(env, kwargs)

\* the error output of a callback
NoErrorOutput == [kind |-> "absent", message |-> NoRaise, trace |-> FALSE]
EmptyString == [kind |-> "empty", message |-> NoRaise, trace |-> FALSE]
\* f"Error updating chart: {str(e)}\n{traceback.format_exc()}"
Diagnostic(e) == [kind |-> "diagnostic", message |-> e, trace |-> TRUE]

\* what a callback hands back: the kind of payload and how many rows it shows
Payload(kind, rows) == [kind |-> kind, total |-> Len(rows)]

Outcome(component, kwargs, m, raisedInside, propagated, err, payload, summary) ==
    [done |-> TRUE, component |-> component, kwargs |-> kwargs,
     filtered |-> [raised |-> m.raised, df |-> m.df, hit |-> m.hit],
     raisedInside |-> raisedInside, propagated |-> propagated,
     err |-> err, payload |-> payload, summary |-> summary]

Idle == [done |-> FALSE]

\* Filter_component.py lines 331-341: no try around the call
display_count(env, kwargs) ==
    Only({[env |-> m.env,
           out |-> Outcome("display_count", kwargs, m, m.raised, m.raised,
                           NoErrorOutput,
                           IF m.raised = NoRaise THEN Payload("count", m.df)
                           ELSE Payload("none", <<>>),
                           Payload("none", <<>>))] :
          m \in {Memoized_filter_data(env, kwargs)}})

\* the decimal digits of a natural number, as str() writes them
RECURSIVE Str(_)
Str(n) ==
    IF n < 10 THEN <<DigitChars[n + 1]>>
    ELSE Str(n \div 10) \o <<DigitChars[(n % 10) + 1]>>

\* f"{n:,}": groups of three digits separated by commas
RECURSIVE FormatThousands(_)
FormatThousands(n) ==
    IF n < 1000 THEN Str(n)
    ELSE FormatThousands(n \div 1000) \o <<",">>
           \o <<DigitChars[((n \div 100) % 10) + 1],
                DigitChars[((n \div 10) % 10) + 1],
                DigitChars[(n % 10) + 1]>>

\* the integer nearest to num / den, a tie going to the even one
RoundDiv(num, den) ==
    LET q == num \div den
        r == num % den
    IN  IF 2 * r < den THEN q
        ELSE IF 2 * r > den THEN q + 1
        ELSE IF q % 2 = 0 THEN q ELSE q + 1

\* f"{x:.1f}" of the non-negative x = num / (10 * den): one digit after the
\* point
FormatOneDecimal(num, den) ==
    LET tenths == RoundDiv(num, den)
    IN  Str(tenths \div 10) \o <<".", DigitChars[(tenths % 10) + 1]>>

\* the values of a column that are not missing
Present(df, column) ==
    LET cells == [i \in 1..Len(df) |-> df[i][column]]
        kept == SelectSeq(cells, LAMBDA c : ~c.na)
    IN  [i \in 1..Len(kept) |-> kept[i].v]

RECURSIVE Sum(_)
Sum(values) == IF values = <<>> THEN 0 ELSE Head(values) + Sum(Tail(values))

s_nan == <<"n", "a", "n">>

\* f"{df[column].mean() / unit:.1f}": the mean skips the missing values;
\* the values are hundredths
FormatMean(df, column, unit) ==
    LET values == Present(df, column)
    IN  IF values = <<>> THEN s_nan
        ELSE FormatOneDecimal(Sum(values), Len(values) * 10 * unit)

\* the table before it is filtered
DataCardsFrameUnfiltered(m) == m.env.data

\* the table the cards are computed from
DataCardsFrame(m) == m.df

\* Data_cards.py lines 64-79: the three cards
DataCards_values(df) ==
    [kind |-> "cards", total |-> Len(df),
     total_tracks |-> FormatThousands(Len(df)),
     avg_popularity |-> FormatMean(df, "popularity", 1),
     avg_duration |-> FormatMean(df, "duration_ms", 60000)]

\* Data_cards.py lines 51-84
DataCards_update(env, kwargs) ==
    Only({[env |-> m.env,
           out |-> Outcome("data_cards", kwargs, m, m.raised, NoRaise,
                           NoErrorOutput,
                           IF m.raised # NoRaise THEN Payload("Error", <<>>)
                           ELSE IF Len(m.df) = 0 THEN Payload("No Data", <<>>)
                           ELSE DataCards_values(DataCardsFrame(m)),
                           Payload("none", <<>>))] :
          m \in {Memoized_filter_data(env, kwargs)}})

\* Data_table.py lines 64-135 and 145-153; df.head(10_000) keeps every row
\* of the tables considered
update_table(env, kwargs) ==
    Only({[env |-> m.env,
           out |-> Outcome("data_table", kwargs, m, m.raised, NoRaise,
                           NoErrorOutput,
                           IF m.raised # NoRaise \/ Len(m.df) = 0
                           THEN Payload("empty_lists", <<>>)
                           ELSE Payload("grid", m.df),
                           Payload("none", <<>>))] :
          m \in {Memoized_filter_data(env, kwargs)}})

\* Data_table.py lines 160-219
update_summary(env, kwargs) ==
    Only({[env |-> m.env,
           out |-> Outcome("data_table_summary", kwargs, m, m.raised, NoRaise,
                           NoErrorOutput,
                           IF m.raised # NoRaise THEN Payload("Error loading summary", <<>>)
                           ELSE IF Len(m.df) = 0
                           THEN Payload("No data available with current filters", <<>>)
                           ELSE Payload("cards", m.df),
                           Payload("none", <<>>))] :
          m \in {Memoized_filter_data(env, kwargs)}})

\* pd.to_numeric(cell, errors='coerce'): a number stays, a string that
\* reads as a number becomes that number, anything else becomes missing
ToNumeric(cell) ==
    IF cell.na THEN NA
    ELSE IF "v" \in DOMAIN cell THEN cell
    ELSE IF IsDecimal(cell.s) THEN Val(ParseDecimal(cell.s))
    ELSE NA

\* a value that lies on the upper edge is counted in the bucket below
HistogramBucketOpen(x, lo, hi, bins) == ((x - lo) * bins) \div (hi - lo) + 1

\* np.histogram: the bucket, 1 to bins, of x among values between lo and hi;
\* the buckets are equal in width and closed on the left, the last one on
\* both sides
HistogramBucket(x, lo, hi, bins) ==
    IF x = hi THEN bins ELSE ((x - lo) * bins) \div (hi - lo) + 1

\* np.histogram(values, bins=bins): the counts of the buckets; the range is
\* from the smallest to the largest value, widened by 0.5 on both sides when
\* they are the same
np_histogram(values, bins) ==
    LET first_edge == IF Min(values) = Max(values) THEN Min(values) - 50
                      ELSE Min(values)
        last_edge == IF Min(values) = Max(values) THEN Max(values) + 50
                     ELSE Max(values)
        bucket == [i \in 1..Len(values) |->
                     HistogramBucket(values[i], first_edge, last_edge, bins)]
    IN  [b \in 1..bins |-> Cardinality({i \in 1..Len(values) : bucket[i] = b})]

\* Histogram_chart.py lines 132-257, after its own call of filter_data:
\* the figure, or the exception the logic raises, and the rows of the table
\* filter_data returned after the metric column was assigned
Histogram_figure(df, kwargs) ==
    LET metric == IF kwargs.design_a_futuristic_histogram_metric.t = "none"
                  THEN "popularity"
                  ELSE kwargs.design_a_futuristic_histogram_metric.s[1]
        bins == IF kwargs.design_a_futuristic_histogram_bins.t = "none"
                THEN Num(2000)
                ELSE kwargs.design_a_futuristic_histogram_bins
        coerced == [i \in 1..Len(df) |->
                      [df[i] EXCEPT ![metric] = ToNumeric(df[i][metric])]]
        valid == SelectSeq(coerced, LAMBDA r : ~r[metric].na)
        values == [i \in 1..Len(valid) |-> valid[i][metric].v]
    IN  IF Len(df) = 0
        THEN [raised |-> NoRaise, figure |-> Payload("No data available", <<>>),
              frame |-> df]
        ELSE IF metric \notin DOMAIN df[1]
        THEN [raised |-> "KeyError", figure |-> Payload("none", <<>>),
              frame |-> df]
        ELSE IF Len(valid) = 0
        THEN [raised |-> NoRaise,
              figure |-> Payload("No valid data for selected metric", <<>>),
              frame |-> coerced]
        ELSE IF bins.t # "num" \/ bins.v % 100 # 0
        THEN [raised |-> "TypeError", figure |-> Payload("none", <<>>),
              frame |-> coerced]
        ELSE IF bins.v < 100
        THEN [raised |-> "ValueError", figure |-> Payload("none", <<>>),
              frame |-> coerced]
        ELSE [raised |-> NoRaise,
              figure |-> Payload("histogram", valid)
                             @@ [counts |-> np_histogram(values, bins.v \div 100)],
              frame |-> coerced]

\* Histogram_chart.py lines 270-329: filter_data is called by update for the
\* summary cards and again by _update_logic
Histogram_update(env, kwargs) ==
    Only({Only({Only({Only({
        [env |-> IF m.raised # NoRaise THEN m.env ELSE m2.env,
         out |-> Outcome("histogram", kwargs, m, raised, NoRaise,
                         IF raised = NoRaise THEN EmptyString ELSE Diagnostic(raised),
                         IF raised = NoRaise THEN fig.figure
                         ELSE Payload("Error in chart", <<>>),
                         IF raised = NoRaise /\ Len(m.df) > 0
                         THEN Payload("cards", m.df) ELSE Payload("none", <<>>))
                   @@ [frame |-> IF m.raised = NoRaise /\ m2.raised = NoRaise
                                 THEN fig.frame ELSE <<>>]] :
          raised \in {IF m.raised # NoRaise THEN m.raised
                      ELSE IF m2.raised # NoRaise THEN m2.raised
                      ELSE fig.raised}}) :
          fig \in {Histogram_figure(m2.df, kwargs)}}) :
          m2 \in {Memoized_filter_data(m.env, kwargs)}}) :
          m \in {Memoized_filter_data(env, kwargs)}})

\* Tempo_energy_chart.py lines 204-225: the chart's own tempo range, None
\* replaced by the defaults 60 and 180, then float()
TempoRange(kwargs) ==
    LET lo == IF kwargs.tempo_energy_density_plot_tempo_min.t = "none"
              THEN Num(6000) ELSE kwargs.tempo_energy_density_plot_tempo_min
        hi == IF kwargs.tempo_energy_density_plot_tempo_max.t = "none"
              THEN Num(18000) ELSE kwargs.tempo_energy_density_plot_tempo_max
    IN  [raised |-> IF Float(lo).raised # NoRaise THEN Float(lo).raised
                    ELSE Float(hi).raised,
         lo |-> Float(lo).v, hi |-> Float(hi).v]

\* Tempo_energy_chart.py lines 254-284: the genres of the scatter traces laid
\* over the density plot, and the exceptions the bare except swallowed
TempoEnergy_overlay(df_filtered, kwargs) ==
    LET parsed == [i \in 1..Len(df_filtered) |-> parse_overlay(df_filtered[i].genres)]
        all_genres == Flatten([i \in 1..Len(parsed) |-> parsed[i].genres])
    IN  IF kwargs.tempo_energy_density_plot_genre_overlay = Name("show")
        THEN [shown |-> TRUE, all_genres |-> all_genres,
              caught |-> {parsed[i].caught : i \in 1..Len(parsed)} \ {NoRaise}]
        ELSE [shown |-> FALSE, all_genres |-> <<>>, caught |-> {}]

\* Tempo_energy_chart.py lines 182-332, after the call of filter_data
TempoEnergy_figure(df, kwargs) ==
    LET coerced == [i \in 1..Len(df) |->
                      [df[i] EXCEPT !.tempo = ToNumeric(df[i].tempo),
                                    !.energy = ToNumeric(df[i].energy)]]
        present == SelectSeq(coerced, LAMBDA r : ~r.tempo.na /\ ~r.energy.na)
        range == TempoRange(kwargs)
        df_filtered == SelectSeq(present, LAMBDA r :
                           r.tempo.v >= range.lo /\ r.tempo.v <= range.hi)
    IN  IF Len(df) = 0
        THEN [raised |-> NoRaise, figure |-> Payload("No data available", <<>>),
              frame |-> df]
        ELSE IF range.raised # NoRaise
        THEN [raised |-> range.raised, figure |-> Payload("none", <<>>),
              frame |-> coerced]
        ELSE IF Len(df_filtered) = 0
        THEN [raised |-> NoRaise,
              figure |-> Payload("No data in selected tempo range", <<>>),
              frame |-> coerced]
        ELSE [raised |-> NoRaise,
              figure |-> Payload("density", df_filtered)
                             @@ [overlay |-> TempoEnergy_overlay(df_filtered, kwargs)],
              frame |-> coerced]

\* Tempo_energy_chart.py lines 334-364
TempoEnergy_update(env, kwargs) ==
    Only({
        LET fig == TempoEnergy_figure(m.df, kwargs)
            raised == IF m.raised # NoRaise THEN m.raised ELSE fig.raised
        IN  [env |-> m.env,
             out |-> Outcome("tempo_energy", kwargs, m, raised, NoRaise,
                             IF raised = NoRaise THEN EmptyString ELSE Diagnostic(raised),
                             IF raised = NoRaise THEN fig.figure
                             ELSE Payload("Error in chart", <<>>),
                             IF raised = NoRaise /\ Len(m.df) > 0
                             THEN Payload("cards", m.df) ELSE Payload("none", <<>>))
                       @@ [frame |-> IF m.raised = NoRaise THEN fig.frame ELSE <<>>]] :
          m \in {Memoized_filter_data(env, kwargs)}})

-----------------------------------------------------------------------------
(* Spec: the dashboard process.  The user changes one input at a time; any *)
(* callback may then run with the current values of its inputs.            *)
(***************************************************************************)

DashboardTables ==
    { <<>>,
      <<row_pop, row_no_genre>>,
      <<row_kpop, row_null_text>> }

ControlNames == FilterNames \cup ChartControlNames

DefaultControls == DefaultFilters @@ DefaultChartControls

\* the values, other than its default, an input is set to
ControlAlternatives ==
    [n \in ControlNames |->
       CASE n = "genre_multiselect_filter" -> {ListV(<<s_pop>>)}
         [] n = "popularity_min" -> {None}
         [] n = "tempo_min" -> {Num(23000)}
         [] n = "design_a_futuristic_histogram_bins" -> {Num(2500)}
         [] n = "tempo_energy_density_plot_tempo_min" -> {Num(20000)}
         [] OTHER -> {}]

HistogramInputs ==
    FilterNames \cup {"design_a_futuristic_histogram_metric",
                      "design_a_futuristic_histogram_bins"}

TempoEnergyInputs ==
    FilterNames \cup {"tempo_energy_density_plot_tempo_min",
                      "tempo_energy_density_plot_tempo_max",
                      "tempo_energy_density_plot_genre_overlay"}

Init ==
    /\ data \in DashboardTables
    /\ controls = DefaultControls
    /\ cache = <<>>
    /\ bodyRuns = 0
    /\ last = Idle
    /\ nChanges = 0
    /\ nCalls = 0
    /\ first = NotCalled
    /\ second = NotCalled
    /\ NothingLoaded

SetControl(n, a) ==
    /\ nChanges < MaxChanges
    /\ controls[n] # a
    /\ controls' = [controls EXCEPT ![n] = a]
    /\ nChanges' = nChanges + 1
    /\ UNCHANGED <<data, cache, bodyRuns, last, nCalls, first, second>>
    /\ UNCHANGED layoutVars

Completes(r) ==
    /\ nCalls < MaxCalls
    /\ nCalls' = nCalls + 1
    /\ cache' = r.env.cache
    /\ bodyRuns' = r.env.runs
    /\ data' = r.env.data
    /\ last' = r.out
    /\ UNCHANGED <<controls, nChanges, first, second>>
    /\ UNCHANGED layoutVars

DisplayCount ==
    \E r \in {display_count(Env(cache, bodyRuns, data), Restrict(controls, FilterNames))} :
        Completes(r)

DataCardsUpdate ==
    \E r \in {DataCards_update(Env(cache, bodyRuns, data), Restrict(controls, FilterNames))} :
        Completes(r)

UpdateTable ==
    \E r \in {update_table(Env(cache, bodyRuns, data), Restrict(controls, FilterNames))} :
        Completes(r)

UpdateSummary ==
    \E r \in {update_summary(Env(cache, bodyRuns, data), Restrict(controls, FilterNames))} :
        Completes(r)

HistogramUpdate ==
    \E r \in {Histogram_update(Env(cache, bodyRuns, data),
                                Restrict(controls, HistogramInputs))} :
        Completes(r)

TempoEnergyUpdate ==
    \E r \in {TempoEnergy_update(Env(cache, bodyRuns, data),
                                  Restrict(controls, TempoEnergyInputs))} :
        Completes(r)

Next ==
    \/ \E n \in ControlNames :
          \E a \in ControlAlternatives[n] \cup {DefaultControls[n]} : SetControl(n, a)
    \/ DisplayCount
    \/ DataCardsUpdate
    \/ UpdateTable
    \/ UpdateSummary
    \/ HistogramUpdate
    \/ TempoEnergyUpdate

Spec == Init /\ [][Next]_vars

-----------------------------------------------------------------------------
(* Claims about the memoisation and the callbacks, checked under Spec *)

LastFilters == Restrict(last.kwargs, FilterNames)

TempoChartRangeInverted(kwargs) ==
    /\ TempoRange(kwargs).raised = NoRaise
    /\ TempoRange(kwargs).lo > TempoRange(kwargs).hi

\* C4: a range whose min is greater than its max yields an empty result and
\* never an error: filter_data returns zero rows for an inverted filter
\* range, and the tempo-energy update returns its empty-state figure with an
\* empty error string for an inverted tempo range of its own.
C4_InvertedRangeEmptyNeverError ==
    /\ last.done
    /\ RangeBoundsNumeric(LastFilters) /\ SelectionsAreLists(LastFilters)
    => /\ SomeRangeInverted(LastFilters)
            => last.filtered.raised = NoRaise /\ last.filtered.df = <<>>
       /\ (last.component = "tempo_energy" /\ TempoChartRangeInverted(last.kwargs))
            => /\ last.err = EmptyString
               /\ last.payload.kind \in {"No data available",
                                         "No data in selected tempo range"}

C8_OneEntryPerFilterValues ==
    \A k1, k2 \in DOMAIN cache :
        Restrict(k1, FilterNames) = Restrict(k2, FilterNames) => k1 = k2

\* C9: no exception propagates out of a callback, whatever the inputs.
C9_NoExceptionPropagates ==
    last.done => last.propagated = NoRaise

ReportsNoError(err) == err.kind \in {"empty", "absent"}

EmptyStatePayloads ==
    {"Error", "empty_lists", "Error loading summary", "Error in chart"}

\* C10: the error string of an update is empty exactly when its logic did
\* not raise; when it raises, the update returns its empty-state result and
\* a diagnostic string with the exception message and the stack trace.
C10_ErrorStringIffRaised ==
    last.done /\ last.component # "display_count" =>
        /\ ReportsNoError(last.err) <=> last.raisedInside = NoRaise
        /\ last.raisedInside # NoRaise =>
              /\ last.payload.kind \in EmptyStatePayloads
              /\ last.err = Diagnostic(last.raisedInside)

\* the result a component returns when zero rows remain after filtering
NoDataSentinel(component) ==
    CASE component = "data_cards" -> "No Data"
      [] component = "data_table" -> "empty_lists"
      [] component = "data_table_summary" -> "No data available with current filters"
      [] component = "histogram" -> "No data available"
      [] component = "tempo_energy" -> "No data available"
      [] OTHER -> "none"

\* C12: whenever zero rows remain after filtering, a component returns its
\* 'no data' sentinel and reports no error, and the result it returns when
\* its update logic raises is a different one.
C12_NoDataDistinctFromError ==
    last.done /\ last.component # "display_count" =>
        /\ (last.raisedInside = NoRaise /\ last.filtered.df = <<>>)
              => /\ last.payload.kind = NoDataSentinel(last.component)
                 /\ ReportsNoError(last.err)
        /\ last.raisedInside # NoRaise
              => ~ /\ last.payload.kind = NoDataSentinel(last.component)
                   /\ ReportsNoError(last.err)

-----------------------------------------------------------------------------
(* The chart components                                                    *)

\* bound: the rows of the tables the charts are run on
MaxChartRows == 2

\* bound: the chart updates that run on one table and one request
MaxChartCalls == 1

s_jazz == <<"j", "a", "z", "z">>

\* a track with the key and mode columns (Int64 in data.py)
WithKey(row, key, mode) ==
    [genres |-> row.genres, artists |-> row.artists,
     popularity |-> row.popularity, energy |-> row.energy,
     danceability |-> row.danceability, valence |-> row.valence,
     tempo |-> row.tempo, duration_ms |-> row.duration_ms,
     key |-> key, mode |-> mode]

\* a row with its acousticness, a column no filter reads
WithAcousticness(row, acousticness) == row @@ [acousticness |-> acousticness]

\* "['pop', 'rock']"
chart_pop_rock ==
    WithAcousticness(
        WithKey(Row(Text(List2(s_pop, s_rock)), Text(s_A), Val(5000), Val(50),
                    Val(50), Val(50), Val(11000), Ms(200000)), Val(0), Val(1)),
        Val(10))

\* "['rock', 'k-pop']"
chart_rock_kpop ==
    WithAcousticness(
        WithKey(Row(Text(List2(s_rock, s_kpop)), Text(s_B), Val(8000), Val(90),
                    Val(20), Val(50), Val(15000), Ms(240000)), Val(7), Val(0)),
        Val(80))

\* "[]"
chart_no_genre ==
    WithAcousticness(
        WithKey(Row(Text(s_brackets), Text(s_A), Val(7000), Val(30), Val(40),
                    Val(50), Val(9000), Ms(180000)), Val(0), Val(1)),
        NA)

\* genres missing in the file
chart_null_genres ==
    WithAcousticness(
        WithKey(Row(NaN, Text(s_B), Val(2500), Val(25), Val(75), Val(40),
                    Val(12000), Ms(300000)), Val(11), Val(0)),
        Val(10))

\* genres not written as a list: "pop"
chart_malformed ==
    WithAcousticness(
        WithKey(Row(Text(s_pop), Text(s_A), Val(6500), Val(70), Val(60), Val(50),
                    Val(10000), Ms(210000)), Val(2), Val(1)),
        Val(45))

ChartRows ==
    <<chart_pop_rock, chart_rock_kpop, chart_no_genre, chart_null_genres,
      chart_malformed>>

\* the rows of the list at the positions in I, in the order of the list
Pick(list, I) ==
    LET picked[k \in 0..Len(list)] ==
            IF k = 0 THEN <<>>
            ELSE IF k \in I THEN Append(picked[k - 1], list[k])
            ELSE picked[k - 1]
    IN  picked[Len(list)]

\* the tables of at most MaxChartRows of the rows, in the order of the file
ChartTables ==
    {Pick(ChartRows, I) :
       I \in {J \in SUBSET (1..Len(ChartRows)) : Cardinality(J) <= MaxChartRows}}

\* the inputs of the charts, other than the filters, at their defaults
\* (the genres of the box plot default to the first genres of the data)
DefaultPlotControls ==
    [audio_feature_correlation_matrix_features |->
        ListV(<<"danceability", "energy", "tempo", "valence">>),
     audio_feature_correlation_matrix_significance |-> ListV(<<>>),
     audio_feature_distribution_as_feature |-> Name("valence"),
     audio_feature_distribution_as_genres |-> ListV(<<s_kpop, s_pop>>),
     genre_sonic_fingerprint_heatmap_normalization |-> Name("normalized"),
     genre_evolution_sparklines_as_feature |-> Name("danceability"),
     genre_evolution_sparklines_as_y_axis |-> Name("unified"),
     genre_evolution_sparklines_as_sort |-> Name("alphabetical"),
     popularity_landscapes_by_genre_selection |-> Name("top_15"),
     popularity_landscapes_by_num_genres |-> Num(1000),
     hit_formula_scatter_plot_y_axis |-> Name("danceability"),
     create_a_bar_chart_with_groupby |-> Name("artists"),
     create_a_bar_chart_with_limit |-> Num(1500)]

PlotControlNames == DOMAIN DefaultPlotControls

DefaultRequest == DefaultControls @@ DefaultPlotControls

RequestNames == DOMAIN DefaultRequest

\* the values, other than its default, an input of a chart is set to
RequestAlternatives ==
    [n \in RequestNames |->
       CASE n = "genre_multiselect_filter" -> {ListV(<<s_pop>>)}
         [] n = "popularity_min" -> {None}
         [] n = "tempo_min" -> {Num(23000)}
         [] n = "design_a_futuristic_histogram_bins" -> {Num(2500)}
         [] n = "design_a_futuristic_histogram_metric" -> {Name("acousticness")}
         [] n = "tempo_energy_density_plot_genre_overlay" -> {Name("show")}
         [] n = "audio_feature_correlation_matrix_features" ->
                {ListV(<<"energy">>), ListV(<<>>)}
         [] n = "audio_feature_distribution_as_genres" ->
                {ListV(<<s_jazz>>), ListV(<<>>)}
         [] n = "genre_sonic_fingerprint_heatmap_normalization" -> {Name("raw")}
         [] n = "popularity_landscapes_by_genre_selection" -> {StrV(s_rock)}
         [] n = "create_a_bar_chart_with_groupby" -> {Name("key"), Name("mode")}
         [] OTHER -> {}]

\* the requests that differ from the defaults in one input
Requests ==
    {DefaultRequest}
    \cup UNION {{[DefaultRequest EXCEPT ![n] = a] : a \in RequestAlternatives[n]} :
                n \in RequestNames}

\* what _update_logic leaves: the exception it raises or its figure, its
\* summary, and the rows of the table it received from filter_data as they
\* are when it returns
Figure(raised, figure, summary, frame) ==
    [raised |-> raised, figure |-> figure, summary |-> summary, frame |-> frame]

NoSummary == Payload("none", <<>>)

\* update() of a chart, around _update_logic: the figure with an empty
\* error string, or the error figure with the diagnostic
ChartOutcome(component, kwargs, m, fig) ==
    Only({[env |-> m.env,
           out |-> Outcome(component, kwargs, m, raised, NoRaise,
                           IF raised = NoRaise THEN EmptyString
                           ELSE Diagnostic(raised),
                           IF raised = NoRaise THEN fig.figure
                           ELSE Payload("Error in chart", <<>>),
                           IF raised = NoRaise THEN fig.summary ELSE NoSummary)
                  @@ [frame |-> IF m.raised = NoRaise THEN fig.frame ELSE <<>>]] :
          raised \in {IF m.raised # NoRaise THEN m.raised ELSE fig.raised}})

\* a chart update of the bounded run completes
ChartCompletes(r) == nCalls < MaxChartCalls /\ Completes(r)

\* a test that lets a single feature through
NoFeatures(selected) == Len(selected) < 1

\* fewer features than a correlation needs
TooFewFeatures(selected) == Len(selected) < 2

\* a p-value in ten-thousandths, and the p-value that is not a number
PValue(v) == [nan |-> FALSE, v |-> v]
PNaN == [nan |-> TRUE, v |-> 0]

\* the p-values taken for a sample of 3 rows or more that is not constant:
\* 0, 0.0009, 0.001, 0.0099, 0.01, 0.0499, 0.05 and 0.9999
PValues == {0, 9, 10, 99, 100, 499, 500, 9999}

IsConstant(x) == \A i \in 1..Len(x) : x[i] = x[1]

\* scipy.stats.pearsonr(x, y), as far as the p-value goes: fewer than 2 rows
\* raise ValueError, a constant column gives nan, 2 rows give 1.0; the
\* p-value of another sample is not computed, it is any of PValues
pearsonr(x, y) ==
    IF Len(x) < 2 THEN {[raised |-> "ValueError", p |-> PNaN]}
    ELSE IF IsConstant(x) \/ IsConstant(y) THEN {[raised |-> NoRaise, p |-> PNaN]}
    ELSE IF Len(x) = 2 THEN {[raised |-> NoRaise, p |-> PValue(10000)]}
    ELSE {[raised |-> NoRaise, p |-> PValue(v)] : v \in PValues}

\* stars with the bounds included
StarsInclusive(p) ==
    IF p.nan THEN 0
    ELSE IF p.v <= 10 THEN 3 ELSE IF p.v <= 100 THEN 2 ELSE IF p.v <= 500 THEN 1 ELSE 0

\* Audio_correlation_heatmap_chart.py lines 246-252: the number of stars of
\* a p-value; every comparison with nan is false
Stars(p) ==
    IF p.nan THEN 0
    ELSE IF p.v < 10 THEN 3 ELSE IF p.v < 100 THEN 2 ELSE IF p.v < 500 THEN 1 ELSE 0

\* the values of a column of feature_data
FeatureColumn(feature_data, feature) ==
    [r \in 1..Len(feature_data) |-> feature_data[r][feature].v]

\* Audio_correlation_heatmap_chart.py lines 222-234: the matrices p_values
\* can be: np.ones, then for every two different features the p-value of
\* pearsonr, or 1.0 when it raised; pearsonr gives the same for (x, y) and
\* (y, x)
PValueMatrices(feature_data, selected) ==
    {[i \in 1..Len(selected) |-> [j \in 1..Len(selected) |->
        IF i = j THEN PValue(10000)
        ELSE Only({IF r.raised # NoRaise THEN PValue(10000) ELSE r.p :
                   r \in {f[IF i < j THEN <<i, j>> ELSE <<j, i>>]}})]] :
     f \in {g \in [{pr \in (1..Len(selected)) \X (1..Len(selected)) : pr[1] < pr[2]}
                   -> UNION {pearsonr(FeatureColumn(feature_data, selected[i]),
                                      FeatureColumn(feature_data, selected[j])) :
                             i \in 1..Len(selected), j \in 1..Len(selected)}] :
             \A pr \in DOMAIN g :
                g[pr] \in pearsonr(FeatureColumn(feature_data, selected[pr[1]]),
                                   FeatureColumn(feature_data, selected[pr[2]]))}}

\* the features selected, and the rows of feature_data: those with every
\* selected feature
CorrelationSelected(kwargs) ==
    IF kwargs.audio_feature_correlation_matrix_features.t = "list"
    THEN kwargs.audio_feature_correlation_matrix_features.l ELSE <<>>

CorrelationData(df, selected) ==
    SelectSeq(df, LAMBDA r : \A i \in 1..Len(selected) : ~r[selected[i]].na)

\* Audio_correlation_heatmap_chart.py line 180
show_significance(kwargs) ==
    InSeq("enabled", kwargs.audio_feature_correlation_matrix_significance.l)

\* Audio_correlation_heatmap_chart.py lines 159-287, after filter_data, with
\* the matrix of the p-values when they are computed
Correlation_figure(df, kwargs, p_values) ==
    LET selected == CorrelationSelected(kwargs)
        feature_data == CorrelationData(df, selected)
        summary == IF Len(df) = 0 THEN NoSummary ELSE Payload("cards", df)
    IN  IF Len(df) = 0
        THEN Figure(NoRaise, Payload("No data available", <<>>), summary, df)
        ELSE IF kwargs.audio_feature_correlation_matrix_significance.t # "list"
        THEN Figure("TypeError", NoSummary, NoSummary, df)
        ELSE IF TooFewFeatures(selected)
        THEN Figure(NoRaise, Payload("Select at least 2 features", <<>>), summary, df)
        ELSE IF \E i \in 1..Len(selected) : selected[i] \notin DOMAIN df[1]
        THEN Figure("KeyError", NoSummary, NoSummary, df)
        ELSE IF Len(feature_data) = 0
        THEN Figure(NoRaise, Payload("No valid data", <<>>), summary, df)
        ELSE Figure(NoRaise,
                    Payload("correlation", feature_data)
                        @@ [size |-> Len(selected),
                            show_significance |-> show_significance(kwargs),
                            p_values |-> p_values,
                            stars |->
                                [i \in 1..Len(selected) |-> [j \in 1..Len(selected) |->
                                    IF show_significance(kwargs) /\ i # j
                                    THEN Stars(p_values[i][j]) ELSE 0]]],
                    summary, df)

\* whether _update_logic reaches the p-values
ComputesPValues(df, kwargs) ==
    /\ Len(df) # 0
    /\ kwargs.audio_feature_correlation_matrix_significance.t = "list"
    /\ show_significance(kwargs)
    /\ ~TooFewFeatures(CorrelationSelected(kwargs))
    /\ \A i \in 1..Len(CorrelationSelected(kwargs)) :
          CorrelationSelected(kwargs)[i] \in DOMAIN df[1]
    /\ Len(CorrelationData(df, CorrelationSelected(kwargs))) # 0

\* Audio_correlation_heatmap_chart.py lines 288-329: the results update can
\* return, one for every matrix of p-values
Correlation_update(env, kwargs) ==
    UNION {{ChartOutcome("correlation", kwargs, m,
                         Correlation_figure(m.df, kwargs, p_values)) :
              p_values \in IF ComputesPValues(m.df, kwargs)
                           THEN PValueMatrices(
                                    CorrelationData(m.df, CorrelationSelected(kwargs)),
                                    CorrelationSelected(kwargs))
                           ELSE {<<>>}} :
           m \in {Memoized_filter_data(env, kwargs)}}

CorrelationInputs ==
    FilterNames \cup {"audio_feature_correlation_matrix_features",
                      "audio_feature_correlation_matrix_significance"}

CorrelationUpdate ==
    \E r \in Correlation_update(Env(cache, bodyRuns, data),
                                 Restrict(controls, CorrelationInputs)) :
        ChartCompletes(r)

\* the sequences of a sequence of sequences, one after the other
\* Audio_feature_box_plot_chart.py lines 167-256, after filter_data
BoxPlot_figure(df, kwargs) ==
    LET feature == kwargs.audio_feature_distribution_as_feature
        genres == kwargs.audio_feature_distribution_as_genres
        selected_feature == IF feature.t = "none" THEN "valence" ELSE feature.s[1]
        selected_genres == IF genres.t = "list" THEN genres.l ELSE <<>>
        parsed == [i \in 1..Len(df) |-> parse_box_plot(df[i].genres)]
        raising == {i \in 1..Len(df) : parsed[i].raised # NoRaise}
        plot_data ==
            Flatten([i \in 1..Len(df) |->
                       SelectSeq(parsed[i].genres,
                                 LAMBDA g : InSeq(g, selected_genres))])
        plot_rows ==
            Flatten([i \in 1..Len(df) |->
                       Only({[k \in 1..Len(shown) |-> [row |-> i, genre |-> shown[k]]] :
                             shown \in {SelectSeq(parsed[i].genres,
                                                    LAMBDA g : InSeq(g, selected_genres))}})])
        summary == Payload("cards", df)
    IN  IF Len(df) = 0
        THEN Figure(NoRaise, Payload("No data available", <<>>), Payload("0", <<>>), df)
        ELSE IF Len(selected_genres) = 0
        THEN Figure(NoRaise,
                    Payload("Please select at least one genre to compare", <<>>),
                    summary, df)
        ELSE IF raising # {}
        THEN Figure(parsed[CHOOSE i \in raising : \A j \in raising : i <= j].raised,
                    NoSummary, NoSummary, df)
        ELSE IF plot_data # <<>> /\ selected_feature \notin DOMAIN df[1]
        THEN Figure("KeyError", NoSummary, NoSummary, df)
        ELSE IF plot_data = <<>>
        THEN Figure(NoRaise,
                    Payload("No data available for selected genres", <<>>),
                    summary, df)
        ELSE Figure(NoRaise,
                    Payload("box", df) @@ [genres |-> plot_data, plot_rows |-> plot_rows],
                    summary, df)

\* Audio_feature_box_plot_chart.py lines 258-284
BoxPlot_update(env, kwargs) ==
    Only({Only({ChartOutcome("box_plot", kwargs, m, fig) :
                fig \in {BoxPlot_figure(m.df, kwargs)}}) :
          m \in {Memoized_filter_data(env, kwargs)}})

BoxPlotInputs ==
    FilterNames \cup {"audio_feature_distribution_as_feature",
                      "audio_feature_distribution_as_genres"}

BoxPlotUpdate ==
    \E r \in {BoxPlot_update(Env(cache, bodyRuns, data),
                              Restrict(controls, BoxPlotInputs))} :
        ChartCompletes(r)

\* Genre_fingerprint_chart.py lines 115-139: genre_tracks, one entry for
\* every genre of every row, with the audio features of the row
FingerprintTracks(df) ==
    Flatten([i \in 1..Len(df) |->
               LET genres == parse_fingerprint(df[i].genres).genres
               IN  [k \in 1..Len(genres) |->
                      [row |-> i, genre |-> genres[k],
                       danceability |-> df[i].danceability.v,
                       energy |-> df[i].energy.v,
                       valence |-> df[i].valence.v]]])

\* the audio features of the heatmap that are columns of the rows here
audio_features == {"danceability", "energy", "valence"}

\* groupby('genre')[feature].mean() for one genre: the sum and the count of
\* the tracks of the genre
GenreMean(genre_tracks, genre, feature) ==
    LET tracks == SelectSeq(genre_tracks, LAMBDA t : t.genre = genre)
    IN  [sum |-> Sum([i \in 1..Len(tracks) |-> tracks[i][feature]]),
         count |-> Len(tracks)]

\* a < b for two means
MeanLess(a, b) == a.sum * b.count < b.sum * a.count

\* np.min and np.max of the means of the genres
MinMean(means) == CHOOSE m \in means : \A o \in means : ~MeanLess(o, m)
MaxMean(means) == CHOOSE m \in means : \A o \in means : ~MeanLess(m, o)

\* a column without spread is shown as 0
MiddleAsZero == [num |-> 0, den |-> 1]

\* Genre_fingerprint_chart.py line 186: a column without spread is shown
\* as 0.5
Middle == [num |-> 1, den |-> 2]

\* Genre_fingerprint_chart.py lines 181-186: (value - min) / (max - min) as a
\* fraction, or the middle when max is not above min
Normalize(value, min_val, max_val) ==
    IF MeanLess(min_val, max_val)
    THEN [num |-> (value.sum * min_val.count - min_val.sum * value.count)
                      * max_val.count,
          den |-> (max_val.sum * min_val.count - min_val.sum * max_val.count)
                      * value.count]
    ELSE Middle

\* Genre_fingerprint_chart.py lines 93-244, after filter_data; the twenty
\* most frequent genres are all the genres when there are at most twenty
Fingerprint_figure(df, kwargs) ==
    LET control == kwargs.genre_sonic_fingerprint_heatmap_normalization
        normalization == IF control.t = "none" THEN <<"normalized">> ELSE control.s
        genre_tracks == FingerprintTracks(df)
        genres == {genre_tracks[i].genre : i \in 1..Len(genre_tracks)}
        counts == [g \in genres |->
                     Len(SelectSeq(genre_tracks, LAMBDA t : t.genre = g))]
        top_genres ==
            IF Cardinality(genres) <= 20 THEN genres
            ELSE CHOOSE top \in SUBSET genres :
                     /\ Cardinality(top) = 20
                     /\ \A g \in top : \A o \in genres \ top :
                           counts[g] >= counts[o]
        genre_averages ==
            [g \in top_genres |->
               [f \in audio_features |-> GenreMean(genre_tracks, g, f)]]
        column(f) == {genre_averages[g][f] : g \in top_genres}
        heatmap_data ==
            [g \in top_genres |->
               [f \in audio_features |->
                  IF normalization = <<"normalized">>
                  THEN Normalize(genre_averages[g][f],
                                 MinMean(column(f)), MaxMean(column(f)))
                  ELSE [num |-> genre_averages[g][f].sum,
                        den |-> genre_averages[g][f].count]]]
    IN  IF Len(df) = 0
        THEN Figure(NoRaise, Payload("No data available", <<>>), NoSummary, df)
        ELSE IF genre_tracks = <<>>
        THEN Figure(NoRaise, Payload("No genre data available", <<>>),
                    NoSummary, df)
        ELSE Figure(NoRaise,
                    Payload("heatmap", df)
                        @@ [y |-> top_genres, z |-> heatmap_data,
                            genre_tracks |-> genre_tracks,
                            genre_averages |-> genre_averages,
                            normalized |-> normalization = <<"normalized">>],
                    Payload("cards", df), df)

\* Genre_fingerprint_chart.py lines 246-271
Fingerprint_update(env, kwargs) ==
    Only({Only({ChartOutcome("fingerprint", kwargs, m, fig) :
                fig \in {Fingerprint_figure(m.df, kwargs)}}) :
          m \in {Memoized_filter_data(env, kwargs)}})

FingerprintInputs ==
    FilterNames \cup {"genre_sonic_fingerprint_heatmap_normalization"}

FingerprintUpdate ==
    \E r \in {Fingerprint_update(Env(cache, bodyRuns, data),
                                  Restrict(controls, FingerprintInputs))} :
        ChartCompletes(r)

\* value_counts().head(n).index: the n most frequent genres, all of them
\* when there are at most n
Head_value_counts(all_genres, n) ==
    LET genres == {all_genres[i] : i \in 1..Len(all_genres)}
        counts == [g \in genres |-> Len(SelectSeq(all_genres, LAMBDA x : x = g))]
    IN  IF Cardinality(genres) <= n THEN genres
        ELSE CHOOSE top \in SUBSET genres :
                 /\ Cardinality(top) = n
                 /\ \A g \in top : \A o \in genres \ top : counts[g] >= counts[o]

\* Popularity_landscapes_chart.py lines 217-230: expanded_data, one entry for
\* every genre of every row
RidgelineExpanded(df) ==
    Flatten([i \in 1..Len(df) |->
               LET genres == parse_ridgeline(df[i].genres)
               IN  [k \in 1..Len(genres) |->
                      [row |-> i, genre |-> genres[k],
                       popularity |-> df[i].popularity,
                       artists |-> df[i].artists]]])

\* Popularity_landscapes_chart.py lines 193-322, after filter_data
Ridgeline_figure(df, kwargs) ==
    LET selection == kwargs.popularity_landscapes_by_genre_selection
        number == kwargs.popularity_landscapes_by_num_genres
        genre_selection == IF selection.t = "none" THEN Name("top_15") ELSE selection
        max_genres == IF number.t = "none" THEN Num(1000) ELSE number
        expanded_data == RidgelineExpanded(df)
        df_expanded == SelectSeq(expanded_data, LAMBDA e : ~e.popularity.na)
        all_genres == [i \in 1..Len(df_expanded) |-> df_expanded[i].genre]
        selected_genres ==
            IF genre_selection = Name("top_15")
            THEN Head_value_counts(all_genres, Float(max_genres).v \div 100)
            ELSE {genre_selection.s}
        df_filtered == SelectSeq(df_expanded, LAMBDA e : e.genre \in selected_genres)
    IN  IF Len(df) = 0
        THEN Figure(NoRaise, Payload("No data available after filtering", <<>>),
                    NoSummary, df)
        ELSE IF expanded_data = <<>>
        THEN Figure(NoRaise, Payload("No genre data available", <<>>), NoSummary, df)
        ELSE IF df_expanded = <<>>
        THEN Figure(NoRaise, Payload("No valid popularity data available", <<>>),
                    NoSummary, df)
        ELSE IF genre_selection = Name("top_15") /\ Float(max_genres).raised # NoRaise
        THEN Figure(Float(max_genres).raised, NoSummary, NoSummary, df)
        ELSE IF df_filtered = <<>>
        THEN Figure(NoRaise, Payload("No data for selected genres", <<>>),
                    NoSummary, df)
        ELSE Figure(NoRaise,
                    Payload("ridgeline", df_filtered)
                        @@ [df_filtered |-> df_filtered],
                    Payload("cards", df_filtered), df)

\* Popularity_landscapes_chart.py lines 324-349
Ridgeline_update(env, kwargs) ==
    Only({Only({ChartOutcome("ridgeline", kwargs, m, fig) :
                fig \in {Ridgeline_figure(m.df, kwargs)}}) :
          m \in {Memoized_filter_data(env, kwargs)}})

RidgelineInputs ==
    FilterNames \cup {"popularity_landscapes_by_genre_selection",
                      "popularity_landscapes_by_num_genres"}

RidgelineUpdate ==
    \E r \in {Ridgeline_update(Env(cache, bodyRuns, data),
                                Restrict(controls, RidgelineInputs))} :
        ChartCompletes(r)

\* Hit_formula_scatter_chart.py lines 94-202, after filter_data: the rows
\* without a missing popularity, feature or genres, and the genre shown for
\* each; the first eval that raises ends the update
HitFormula_figure(df, kwargs) ==
    LET control == kwargs.hit_formula_scatter_plot_y_axis
        y_axis_feature == IF control.t = "none" THEN "danceability" ELSE control.s[1]
        df_clean == SelectSeq(df, LAMBDA r : /\ ~r.popularity.na
                                            /\ ~r[y_axis_feature].na
                                            /\ ~r.genres.na)
        shown == [i \in 1..Len(df_clean) |-> genre_display(df_clean[i].genres)]
        raising == {i \in 1..Len(df_clean) : shown[i].raised # NoRaise}
    IN  IF Len(df) = 0
        THEN Figure(NoRaise, Payload("No data available", <<>>), NoSummary, df)
        ELSE IF y_axis_feature \notin DOMAIN df[1]
        THEN Figure("KeyError", NoSummary, NoSummary, df)
        ELSE IF raising # {}
        THEN Figure(shown[CHOOSE i \in raising : \A j \in raising : i <= j].raised,
                    NoSummary, NoSummary, df)
        ELSE Figure(NoRaise,
                    Payload("scatter", df_clean)
                        @@ [genre_display |->
                              [i \in 1..Len(df_clean) |-> shown[i].genre]],
                    Payload("cards", df_clean), df)

\* Hit_formula_scatter_chart.py lines 204-230
HitFormula_update(env, kwargs) ==
    Only({Only({ChartOutcome("hit_formula", kwargs, m, fig) :
                fig \in {HitFormula_figure(m.df, kwargs)}}) :
          m \in {Memoized_filter_data(env, kwargs)}})

HitFormulaInputs == FilterNames \cup {"hit_formula_scatter_plot_y_axis"}

HitFormulaUpdate ==
    \E r \in {HitFormula_update(Env(cache, bodyRuns, data),
                                 Restrict(controls, HitFormulaInputs))} :
        ChartCompletes(r)

\* Bar_chart.py lines 154-155: key_names, from key 0 to key 11
key_names ==
    <<<<"C">>, <<"C", "#">>, <<"D">>, <<"D", "#">>, <<"E">>, <<"F">>,
      <<"F", "#">>, <<"G">>, <<"G", "#">>, <<"A">>, <<"A", "#">>, <<"B">>>>

\* Bar_chart.py line 160: mode_names, mode 0 and mode 1
mode_names == <<<<"M", "i", "n", "o", "r">>, <<"M", "a", "j", "o", "r">>>>

\* Series.map(names): the name of the number, missing when the number is
\* missing or has no name
MapNames(cell, names) ==
    IF ~cell.na /\ cell.v + 1 \in 1..Len(names)
    THEN Text(names[cell.v + 1]) ELSE NaN

\* Bar_chart.py lines 152-166: the rows of df after the grouping, and the
\* column that names the group of a row; grouping by key or by mode assigns a
\* new column to df
BarGrouping(df, groupby_value) ==
    IF groupby_value = "key"
    THEN [column |-> "key_name",
          df |-> [i \in 1..Len(df) |->
                    df[i] @@ [key_name |-> MapNames(df[i].key, key_names)]]]
    ELSE IF groupby_value = "mode"
    THEN [column |-> "mode_name",
          df |-> [i \in 1..Len(df) |->
                    df[i] @@ [mode_name |-> MapNames(df[i].mode, mode_names)]]]
    ELSE [column |-> "artists", df |-> df]

\* the characters of the strings of the model, in the order of their code
\* points
CodePoints ==
    <<" ", "\"", "#", "'", ",", "-", ".",
      "0", "1", "2", "3", "4", "5", "6", "7", "8", "9",
      "A", "B", "C", "D", "E", "F", "G", "H", "I", "J", "K", "L", "M",
      "N", "O", "P", "Q", "R", "S", "T", "U", "V", "W", "X", "Y", "Z",
      "[", "]", "_",
      "a", "b", "c", "d", "e", "f", "g", "h", "i", "j", "k", "l", "m",
      "n", "o", "p", "q", "r", "s", "t", "u", "v", "w", "x", "y", "z">>

\* ord(c), up to the characters left out
Ord(c) == CHOOSE n \in 1..Len(CodePoints) : CodePoints[n] = c

\* Python's  a < b  for two str values
RECURSIVE StrLess(_, _)
StrLess(a, b) ==
    IF b = <<>> THEN FALSE
    ELSE IF a = <<>> THEN TRUE
    ELSE IF Head(a) # Head(b) THEN Ord(Head(a)) < Ord(Head(b))
    ELSE StrLess(Tail(a), Tail(b))

\* sorted(strings) for a set of different strings
RECURSIVE Sorted(_)
Sorted(strings) ==
    IF strings = {} THEN <<>>
    ELSE LET least == CHOOSE x \in strings : \A y \in strings \ {x} : StrLess(x, y)
         IN  <<least>> \o Sorted(strings \ {least})

\* the sequence without its element at position i
Without(seq, i) == SubSeq(seq, 1, i - 1) \o SubSeq(seq, i + 1, Len(seq))

\* a mean that is missing (no value to average) is neither less nor more
\* than another; sort_values puts it last
MeanBefore(a, b) ==
    IF a.count = 0 THEN FALSE
    ELSE IF b.count = 0 THEN TRUE
    ELSE MeanLess(b, a)

\* the orders of smallest value first
RECURSIVE sort_values_ascending(_, _)
sort_values_ascending(rows, by) ==
    IF rows = <<>> THEN {<<>>}
    ELSE UNION {{<<rows[i]>> \o rest :
                   rest \in sort_values_ascending(Without(rows, i), by)} :
                i \in {k \in 1..Len(rows) :
                         \A j \in 1..Len(rows) :
                            ~MeanBefore(rows[k][by], rows[j][by])}}

\* sort_values(by, ascending=False) with the default kind, quicksort, which
\* is not a stable sort: the orders it can leave the rows in are those of
\* non-increasing value, rows of equal value in any order
RECURSIVE sort_values(_, _)
sort_values(rows, by) ==
    IF rows = <<>> THEN {<<>>}
    ELSE UNION {{<<rows[i]>> \o rest :
                   rest \in sort_values(Without(rows, i), by)} :
                i \in {k \in 1..Len(rows) :
                         \A j \in 1..Len(rows) :
                            ~MeanBefore(rows[j][by], rows[k][by])}}

\* DataFrame.head(n)
DataFrameHead(rows, n) == SubSeq(rows, 1, IF n < Len(rows) THEN n ELSE Len(rows))

\* Bar_chart.py lines 152-166: grouped, a row for every group in the order
\* of the group names, with the mean popularity of the group as sum and count
BarGrouped(df, groupby_value) ==
    LET grouping == BarGrouping(df, groupby_value)
        named == SelectSeq(grouping.df, LAMBDA r : ~r[grouping.column].na)
        groups == Sorted({named[i][grouping.column].s : i \in 1..Len(named)})
    IN  [k \in 1..Len(groups) |->
           LET rows == SelectSeq(named, LAMBDA r : r[grouping.column].s = groups[k])
           IN  [group |-> groups[k],
                popularity |-> [sum |-> Sum(Present(rows, "popularity")),
                                count |-> Len(Present(rows, "popularity"))]]]

\* the group-by and the limit of a request, None replaced by the defaults
BarGroupby(kwargs) ==
    IF kwargs.create_a_bar_chart_with_groupby.t = "none" THEN "artists"
    ELSE kwargs.create_a_bar_chart_with_groupby.s[1]

BarLimit(kwargs) ==
    IF kwargs.create_a_bar_chart_with_limit.t = "none" THEN 15
    ELSE kwargs.create_a_bar_chart_with_limit.v \div 100

\* Bar_chart.py lines 120-262, after filter_data, with the rows of grouped
\* in the order sort_values left them in: the bars are the first ones up to
\* the limit
Bar_figure(df, kwargs, sorted) ==
    IF Len(df) = 0
    THEN Figure(NoRaise, Payload("No data available", <<>>), NoSummary, df)
    ELSE Figure(NoRaise,
                Payload("bar", df)
                    @@ [grouped |-> DataFrameHead(sorted, BarLimit(kwargs))],
                Payload("cards", df),
                BarGrouping(df, BarGroupby(kwargs)).df)

\* Bar_chart.py lines 264-303: the results update can return, one for every
\* order the sort can leave
Bar_update(env, kwargs) ==
    UNION {{ChartOutcome("bar_chart", kwargs, m, Bar_figure(m.df, kwargs, sorted)) :
              sorted \in IF Len(m.df) = 0 THEN {<<>>}
                         ELSE sort_values(BarGrouped(m.df, BarGroupby(kwargs)), "popularity")} :
           m \in {Memoized_filter_data(env, kwargs)}}

BarInputs ==
    FilterNames \cup {"create_a_bar_chart_with_groupby",
                      "create_a_bar_chart_with_limit"}

BarUpdate ==
    \E r \in Bar_update(Env(cache, bodyRuns, data),
                         Restrict(controls, BarInputs)) :
        ChartCompletes(r)

-----------------------------------------------------------------------------
(* Claims about the values the components show, checked under Spec       *)

\* the rows filter_data returns for the table and the filters of the last
\* request
LastRows == filter_data(data, LastFilters).df

\* the sum of the popularity of the rows, in hundredths
RECURSIVE PopularitySum(_)
PopularitySum(rows) ==
    IF rows = <<>> THEN 0
    ELSE rows[1].popularity.v + PopularitySum(Tail(rows))

\* C15: for a filter set that leaves at least one row, the data cards report
\* as total the number of rows of filter_data(T, F), and as average
\* popularity the arithmetic mean of the popularity of exactly those rows,
\* written with one digit after the point.
C15_CardsOverFilteredRows ==
    (/\ last.done /\ last.component = "data_cards"
     /\ filter_data(data, LastFilters).raised = NoRaise
     /\ LastRows # <<>>)
        => /\ last.payload.kind = "cards"
           /\ IntOf(Remove(last.payload.total_tracks, {","})) = Len(LastRows)
           /\ \A i \in 1..Len(LastRows) : ~LastRows[i].popularity.na
           /\ LET shown == ParseDecimal(last.payload.avg_popularity)
                  n == Len(LastRows)
              IN  /\ shown * n - PopularitySum(LastRows) <= 5 * n
                  /\ PopularitySum(LastRows) - shown * n <= 5 * n

\* a genre selection leaves one row of two, and the cards are computed from
\* that row
C15_Witness ==
    /\ last.done /\ last.component = "data_cards"
    /\ last.payload.kind = "cards"
    /\ Len(LastRows) = 1 /\ Len(data) = 2
    /\ LastFilters # DefaultFilters
    /\ last.payload.avg_popularity = <<"5", "0", ".", "0">>

\* pd.cut(values, bins=5): the bin, 1 to 5, of x among values between lo and
\* hi; the bins are equal in width and closed on the right, the first one
\* reaches below lo, and a single value lies in the middle bin
CutBin(x, lo, hi) ==
    IF lo = hi THEN 3
    ELSE IF x = lo THEN 1
    ELSE ((x - lo) * 5 + (hi - lo) - 1) \div (hi - lo)

\* Genre_Evolution_line_chart.py lines 170-193: df_expanded, one entry for
\* every genre of every row
EvolutionExpanded(df) ==
    Flatten([i \in 1..Len(df) |->
               LET genres == parse_evolution(df[i].genres)
               IN  [k \in 1..Len(genres) |->
                      [row |-> i, genre |-> genres[k],
                       popularity |-> df[i].popularity.v]]])

\* the feature and the order of a request, None replaced by the defaults
EvolutionFeature(kwargs) ==
    IF kwargs.genre_evolution_sparklines_as_feature.t = "none" THEN "danceability"
    ELSE kwargs.genre_evolution_sparklines_as_feature.s[1]

EvolutionSort(kwargs) ==
    IF kwargs.genre_evolution_sparklines_as_sort.t = "none" THEN "alphabetical"
    ELSE kwargs.genre_evolution_sparklines_as_sort.s[1]

\* Genre_Evolution_line_chart.py lines 211-214: the rows of df_expanded with
\* their year, the bin 1 to 5 of their popularity
EvolutionYears(df_expanded) ==
    Only({[i \in 1..Len(df_expanded) |->
             df_expanded[i] @@ [year |-> CutBin(df_expanded[i].popularity, lo, hi)]] :
          lo \in {Min([i \in 1..Len(df_expanded) |-> df_expanded[i].popularity])},
          hi \in {Max([i \in 1..Len(df_expanded) |-> df_expanded[i].popularity])}})

\* the years that have rows, of the rows of a genre by year
GenreYears(of) == SelectSeq(<<1, 2, 3, 4, 5>>, LAMBDA y : of[y] # <<>>)

\* the row of genre_year_data for the rows of a genre in a year: the mean of
\* the feature over those that have it
GenreYearMean(df, genre, year, rows, feature) ==
    Only({[genre |-> genre, year |-> year,
           value |-> [sum |-> Sum(values), count |-> Len(values)]] :
          values \in {Present([j \in 1..Len(rows) |-> df[rows[j].row]], feature)}})

\* Genre_Evolution_line_chart.py line 217: a row for every genre and year
\* with rows, in the order of the genres and the years, with the mean of the
\* feature as sum and count
genre_year_data(df, df_expanded, feature) ==
    IF df_expanded = <<>> THEN <<>>
    ELSE
    Only({Flatten([k \in 1..Len(genres) |->
                     Only({[n \in 1..Len(GenreYears(of)) |->
                              GenreYearMean(df, genres[k], GenreYears(of)[n],
                                            of[GenreYears(of)[n]], feature)] :
                           of \in {[y \in 1..5 |->
                                     SelectSeq(years, LAMBDA e :
                                         e.genre = genres[k] /\ e.year = y)]}})]) :
          genres \in {Sorted({df_expanded[i].genre : i \in 1..Len(df_expanded)})},
          years \in {EvolutionYears(df_expanded)}})

\* the genres with rows of at least 2 years
valid_genres_of_two_years(year_data) ==
    Only({SelectSeq(genres, LAMBDA g :
                Cardinality({i \in 1..Len(year_data) : year_data[i].genre = g}) >= 2) :
          genres \in {Sorted({year_data[i].genre : i \in 1..Len(year_data)})}})

\* Genre_Evolution_line_chart.py lines 220-221: the genres with rows of at
\* least 3 years, in the order of the genres
valid_genres(year_data) ==
    Only({SelectSeq(genres, LAMBDA g :
                Cardinality({i \in 1..Len(year_data) : year_data[i].genre = g}) >= 3) :
          genres \in {Sorted({year_data[i].genre : i \in 1..Len(year_data)})}})

\* Series.max(): the largest of the means that are not missing, missing
\* when there is none
SeriesMax(means) ==
    IF \A m \in means : m.count = 0 THEN [sum |-> 0, count |-> 0]
    ELSE CHOOSE m \in means :
            m.count # 0 /\ \A o \in means : o.count # 0 => ~MeanLess(m, o)

\* Genre_Evolution_line_chart.py line 238, before the sort: the largest
\* value of every valid genre, in the order of the genres
genre_max_values(year_data, valid) ==
    [k \in 1..Len(valid) |->
       [genre |-> valid[k],
        value |-> SeriesMax({year_data[i].value :
                             i \in {j \in 1..Len(year_data) : year_data[j].genre = valid[k]}})]]

\* Genre_Evolution_line_chart.py lines 237-241: the orders sorted_genres
\* can have before the cut to 20
EvolutionOrders(year_data, valid, sort_order) ==
    IF sort_order = "max_value"
    THEN {[k \in 1..Len(sorted) |-> sorted[k].genre] :
            sorted \in sort_values(genre_max_values(year_data, valid), "value")}
    ELSE {Only({Sorted({valid[k] : k \in 1..Len(valid)})})}

\* Genre_Evolution_line_chart.py lines 142-331, after filter_data, with
\* sorted_genres in the order the sort left it in before the cut to 20
Evolution_figure(df, kwargs, df_expanded, year_data, sorted_genres) ==
    IF Len(df) = 0
    THEN Figure(NoRaise, Payload("No year_data available", <<>>), NoSummary, df)
    ELSE IF df_expanded = <<>>
    THEN Figure(NoRaise,
                Payload("No genre year_data available", <<>>)
                    @@ [df_expanded |-> df_expanded],
                NoSummary, df)
    ELSE IF sorted_genres = <<>>
    THEN Figure(NoRaise,
                Payload("Insufficient year_data for sparklines", <<>>)
                    @@ [df_expanded |-> df_expanded],
                NoSummary, df)
    ELSE Figure(NoRaise,
                Payload("sparklines", df)
                    @@ [df_expanded |-> df_expanded,
                        genres |-> {sorted_genres[k] : k \in 1..Len(sorted_genres)},
                        sorted_genres |-> DataFrameHead(sorted_genres, 20),
                        genre_year_data |->
                            SelectSeq(year_data, LAMBDA r :
                                InSeq(r.genre, DataFrameHead(sorted_genres, 20)))],
                NoSummary, df)

\* Genre_Evolution_line_chart.py lines 333-359: the results update can
\* return, one for every order the sort can leave
Evolution_update(env, kwargs) ==
    UNION {UNION {UNION {
        {ChartOutcome("evolution", kwargs, m,
                      Evolution_figure(m.df, kwargs, df_expanded, year_data, sorted_genres)) :
           sorted_genres \in EvolutionOrders(year_data, valid_genres(year_data),
                                             EvolutionSort(kwargs))} :
        year_data \in {genre_year_data(m.df, df_expanded, EvolutionFeature(kwargs))}} :
        df_expanded \in {EvolutionExpanded(m.df)}} :
        m \in {Memoized_filter_data(env, kwargs)}}

EvolutionInputs ==
    FilterNames \cup {"genre_evolution_sparklines_as_feature",
                      "genre_evolution_sparklines_as_y_axis",
                      "genre_evolution_sparklines_as_sort"}

EvolutionUpdate ==
    \E r \in Evolution_update(Env(cache, bodyRuns, data),
                               Restrict(controls, EvolutionInputs)) :
        ChartCompletes(r)

-----------------------------------------------------------------------------
(* SpecLayout: the import loop of Layout.py, then layout()                *)

\* the module sets with at most MaxBroken broken modules
RECURSIVE BrokenSets(_)
BrokenSets(k) ==
    IF k = 0 THEN {{}}
    ELSE LET fewer == BrokenSets(k - 1)
         IN  fewer \cup {b \cup {n} : b \in fewer, n \in ComponentNames}

ModuleSets ==
    UNION {{[n \in ComponentNames |-> IF n \in B THEN how[n] ELSE "ok"] :
               how \in [B -> ModuleStates \ {"ok"}]} :
           B \in BrokenSets(MaxBroken)}

InitLayout ==
    /\ modules \in ModuleSets
    /\ component_registry = <<>>
    /\ failed_components = <<>>
    /\ loaded = 0
    /\ page = [done |-> FALSE]
    /\ data = <<>>
    /\ controls = DefaultControls
    /\ cache = <<>>
    /\ bodyRuns = 0
    /\ last = Idle
    /\ nChanges = 0
    /\ nCalls = 0
    /\ first = NotCalled
    /\ second = NotCalled

\* one turn of the import loop, lines 37-44
ImportNext ==
    /\ loaded < Len(COMPONENTS_TO_LOAD)
    /\ LET name == COMPONENTS_TO_LOAD[loaded + 1]
       IN  IF modules[name] = "import_fails"
           THEN /\ failed_components' = Append(failed_components, name)
                /\ UNCHANGED component_registry
           ELSE /\ component_registry' = Append(component_registry, name)
                /\ UNCHANGED failed_components
    /\ loaded' = loaded + 1
    /\ UNCHANGED <<modules, page>>
    /\ UNCHANGED filterVars

\* layout(preview), called once the module is imported
Layout(preview) ==
    /\ loaded = Len(COMPONENTS_TO_LOAD)
    /\ ~page.done
    /\ page' = layout(component_registry, failed_components, modules, preview)
    /\ UNCHANGED <<modules, component_registry, failed_components, loaded>>
    /\ UNCHANGED filterVars

NextLayout ==
    \/ ImportNext
    \/ \E preview \in BOOLEAN : Layout(preview)

SpecLayout == InitLayout /\ [][NextLayout]_vars

\* the component names a page shows as rendered
Rendered(p) ==
    {p.items[i].name : i \in {j \in 1..Len(p.items) : p.items[j].kind = "component"}}
    \cup UNION {{p.items[i].children[k].name :
                    k \in {c \in 1..Len(p.items[i].children) :
                             p.items[i].children[c].kind = "card"}} :
                i \in {j \in 1..Len(p.items) : p.items[j].kind = "row"}}

\* the component names a page shows as failed: an error card, or an entry
\* of the card of failed imports
ShownAsFailed(p) ==
    UNION {{p.items[i].children[k].name :
               k \in {c \in 1..Len(p.items[i].children) :
                        p.items[i].children[c].kind = "error_card"}} :
           i \in {j \in 1..Len(p.items) : p.items[j].kind = "row"}}
    \cup UNION {{p.items[i].names[k] : k \in 1..Len(p.items[i].names)} :
                i \in {j \in 1..Len(p.items) : p.items[j].kind = "import_errors"}}

\* C11: a failing component never prevents the others from rendering: with
\* one module that fails to import or whose layout builder raises, layout()
\* returns a page that shows every other component, and shows the failure as
\* that component's error alone.
C11_FailureIsolatedPerComponent ==
    page.done /\ Cardinality(Broken(modules)) = 1
        => /\ page.raised = NoRaise
           /\ Rendered(page) = ComponentNames \ Broken(modules)
           /\ ShownAsFailed(page) = Broken(modules)

-----------------------------------------------------------------------------
(* SpecCharts: one table, one request, and the updates of the charts       *)

InitCharts ==
    /\ data \in ChartTables
    /\ controls \in Requests
    /\ cache = <<>>
    /\ bodyRuns = 0
    /\ last = Idle
    /\ nChanges = 0
    /\ nCalls = 0
    /\ first = NotCalled
    /\ second = NotCalled
    /\ NothingLoaded

\* the tempo-energy update, run on the tables of the charts
TempoEnergyChartUpdate ==
    \E r \in {TempoEnergy_update(Env(cache, bodyRuns, data),
                                  Restrict(controls, TempoEnergyInputs))} :
        ChartCompletes(r)

\* the histogram update, run on the tables of the charts
HistogramChartUpdate ==
    \E r \in {Histogram_update(Env(cache, bodyRuns, data),
                                Restrict(controls, HistogramInputs))} :
        ChartCompletes(r)

\* an update that assigns nothing to the table it was given: the table is,
\* when the update is over, as filter_data returned it
FrameKept(r) == [r EXCEPT !.out = r.out @@ [frame |-> r.out.filtered.df]]

\* the data cards and the row count, run on the tables of the charts
DataCardsChartUpdate ==
    \E r \in {FrameKept(DataCards_update(Env(cache, bodyRuns, data),
                                         Restrict(controls, FilterNames)))} :
        ChartCompletes(r)

DisplayCountChartUpdate ==
    \E r \in {FrameKept(display_count(Env(cache, bodyRuns, data),
                                      Restrict(controls, FilterNames)))} :
        ChartCompletes(r)

NextCharts ==
    \/ DataCardsChartUpdate
    \/ DisplayCountChartUpdate
    \/ CorrelationUpdate
    \/ BoxPlotUpdate
    \/ EvolutionUpdate
    \/ FingerprintUpdate
    \/ RidgelineUpdate
    \/ HitFormulaUpdate
    \/ TempoEnergyChartUpdate
    \/ HistogramChartUpdate
    \/ BarUpdate

SpecCharts == InitCharts /\ [][NextCharts]_vars

\* the features selected in the last request of the correlation matrix
SelectedFeatures == last.kwargs.audio_feature_correlation_matrix_features.l

\* C13 as stated: for any filter set, a correlation-matrix request with
\* exactly one selected feature returns the 'Select at least 2 features'
\* sentinel with an empty error string.
C13_OneFeatureAlwaysSentinel ==
    (last.done /\ last.component = "correlation" /\ Len(SelectedFeatures) = 1)
        => /\ last.payload.kind = "Select at least 2 features"
           /\ last.err = EmptyString

\* C13: a correlation-matrix request with exactly one selected feature never
\* returns a computed matrix; when filter_data returns at least one row it
\* returns the 'Select at least 2 features' sentinel with an empty error
\* string, and when zero rows remain it returns 'No data available' with an
\* empty error string.
C13_OneFeatureNeverMatrix ==
    (last.done /\ last.component = "correlation" /\ Len(SelectedFeatures) = 1)
        => /\ last.payload.kind # "correlation"
           /\ (last.filtered.raised = NoRaise /\ last.filtered.df # <<>>)
                 => /\ last.payload.kind = "Select at least 2 features"
                    /\ last.err = EmptyString
           /\ (last.filtered.raised = NoRaise /\ last.filtered.df = <<>>)
                 => /\ last.payload.kind = "No data available"
                    /\ last.err = EmptyString

\* one feature selected and rows left: the sentinel is returned
C13_Witness ==
    /\ last.done /\ last.component = "correlation"
    /\ Len(SelectedFeatures) = 1
    /\ Len(last.filtered.df) = 2
    /\ last.payload.kind = "Select at least 2 features"

\* the genre tokens of a genres field as the parse is described: none for
\* a missing value, otherwise the outer brackets stripped, the rest split on
\* commas, whitespace and quotes stripped from each piece, empty pieces
\* dropped
GenreTokens(cell) == IF cell.na THEN <<>> ELSE StripSplitStrip(cell.s)

\* the genres selected in the last request of the box plot
SelectedGenres == last.kwargs.audio_feature_distribution_as_genres.l

\* no row of the table has a genre token among the genres
NoRowOfGenres(rows, genres) ==
    \A i \in 1..Len(rows) :
        \A k \in 1..Len(GenreTokens(rows[i].genres)) :
            ~InSeq(GenreTokens(rows[i].genres)[k], genres)

\* C14: when the genres selected in the box plot are non-empty and no row of
\* the non-empty filtered table has a genre token equal to one of them, the
\* update returns the 'No data available for selected genres' sentinel with
\* an empty error string.
C14_AbsentGenresGiveSentinel ==
    (/\ last.done /\ last.component = "box_plot"
     /\ last.filtered.raised = NoRaise /\ last.filtered.df # <<>>
     /\ SelectedGenres # <<>>
     /\ NoRowOfGenres(last.filtered.df, SelectedGenres))
        => /\ last.payload.kind = "No data available for selected genres"
           /\ last.err = EmptyString

\* the genres the evolution chart made of row i of the table it received
TokensOfRow(df_expanded, i) ==
    LET entries == SelectSeq(df_expanded, LAMBDA e : e.row = i)
    IN  [k \in 1..Len(entries) |-> entries[k].genre]

\* a token is a non-empty piece without brackets, quotes or whitespace
\* around it
CleanToken(g) ==
    /\ g # <<>>
    /\ g[1] \notin Brackets \cup Quotes \cup Whitespace
    /\ g[Len(g)] \notin Brackets \cup Quotes \cup Whitespace

\* what the parse is to make of a genres cell
ParsedAsListed(cell, tokens) ==
    /\ cell.na => tokens = <<>>
    /\ cell = Text(s_brackets) => tokens = <<>>
    /\ cell = Text(List2(s_pop, s_rock)) => tokens = <<s_pop, s_rock>>
    /\ \A k \in 1..Len(tokens) : CleanToken(tokens[k])

\* C16: the genre parse maps "[]" to zero tokens, "['pop', 'rock']" to the
\* tokens pop and rock in that order, and a missing value to zero tokens;
\* every token it yields is non-empty and has no bracket, quote or whitespace
\* around it. This holds of the rows the evolution chart expands and of the
\* genres the filter component collects for its options.
C16_GenreParse ==
    (/\ last.done /\ last.component = "evolution"
     /\ last.raisedInside = NoRaise /\ last.filtered.df # <<>>)
        => \A i \in 1..Len(last.filtered.df) :
              LET cell == last.filtered.df[i].genres
              IN  /\ ParsedAsListed(cell, TokensOfRow(last.payload.df_expanded, i))
                  /\ ParsedAsListed(cell, parse_filter_options(cell))

\* the evolution chart has parsed a table with the genres "['pop', 'rock']"
\* and a missing genres value
C16_Witness ==
    /\ last.done /\ last.component = "evolution"
    /\ last.raisedInside = NoRaise
    /\ Len(last.filtered.df) = 2
    /\ last.filtered.df[1].genres = Text(List2(s_pop, s_rock))
    /\ last.filtered.df[2].genres.na
    /\ Len(last.payload.df_expanded) = 2

\* two means are the same number
SameMean(a, b) == a.sum * b.count = b.sum * a.count

GenreAware ==
    {"fingerprint", "evolution", "ridgeline", "box_plot", "tempo_energy",
     "hit_formula"}

\* C17: a row whose genres field is missing or is not a bracketed,
\* comma-separated, quoted list never makes a genre-aware component fail:
\* whenever filter_data returned a table, the update of the fingerprint, the
\* evolution chart, the ridgeline, the box plot, the tempo-energy chart and
\* the hit-formula scatter returns an empty error string.
C17_GenresNeverFailAnUpdate ==
    (/\ last.done /\ last.component \in GenreAware
     /\ last.filtered.raised = NoRaise)
        => /\ last.raisedInside = NoRaise
           /\ last.err = EmptyString

\* the metric and the number of bins of the last request of the histogram,
\* None replaced by the defaults
RequestedMetric ==
    IF last.kwargs.design_a_futuristic_histogram_metric.t = "none"
    THEN "popularity"
    ELSE last.kwargs.design_a_futuristic_histogram_metric.s[1]

RequestedBins ==
    IF last.kwargs.design_a_futuristic_histogram_bins.t = "none" THEN 20
    ELSE last.kwargs.design_a_futuristic_histogram_bins.v \div 100

\* the rows of the filtered table whose metric is a number after coercion
WithMetric ==
    SelectSeq(last.filtered.df, LAMBDA r : ~ToNumeric(r[RequestedMetric]).na)

\* C18: the histogram has exactly as many buckets as were requested, and the
\* counts of the buckets add up to the number of rows of the filtered table
\* whose metric is not missing after numeric coercion.
C18_HistogramBuckets ==
    (/\ last.done /\ last.component = "histogram"
     /\ last.raisedInside = NoRaise /\ last.payload.kind = "histogram")
        => /\ Len(last.payload.counts) = RequestedBins
           /\ Sum(last.payload.counts) = Len(WithMetric)

\* a histogram of 20 buckets of the acousticness of a filtered table of two
\* rows, one of them without acousticness
C18_Witness ==
    /\ last.done /\ last.component = "histogram"
    /\ last.raisedInside = NoRaise /\ last.payload.kind = "histogram"
    /\ RequestedMetric = "acousticness"
    /\ Len(last.payload.counts) = 20
    /\ Len(last.filtered.df) = 2
    /\ \E i \in 1..2 : last.filtered.df[i].acousticness.na
    /\ Sum(last.payload.counts) = 1

\* C20: no update modifies the table it received from filter_data: when
\* the update of a component is over, the table filter_data returned to it
\* has the columns and the values it was returned with.
C20_FilteredTableNotModified ==
    (last.done /\ last.filtered.raised = NoRaise)
        => last.frame = last.filtered.df

-----------------------------------------------------------------------------
(* SpecWide: the bar chart, the genre sparklines and the correlation    *)
(* matrix on a table with more groups than the bar chart shows, more    *)
(* genres than the sparklines show and rows enough for a p-value        *)

\* the genres b to v
Letters ==
    <<"b", "c", "d", "e", "f", "g", "h", "i", "j", "k", "l", "m", "n", "o",
      "p", "q", "r", "s", "t", "u", "v">>

\* the artists A to U
Capitals ==
    <<"A", "B", "C", "D", "E", "F", "G", "H", "I", "J", "K", "L", "M", "N",
      "O", "P", "Q", "R", "S", "T", "U">>

\* the items of a Python list of one-letter strings, as str() writes them
RECURSIVE Items(_)
Items(letters) ==
    IF Len(letters) = 1 THEN <<"'", letters[1], "'">>
    ELSE <<"'", letters[1], "'", ",", " ">> \o Items(Tail(letters))

ListOf(letters) == <<"[">> \o Items(letters) \o <<"]">>

\* three tracks of every genre b to v, of popularity 0, 50 and 100; the
\* first two are of genre a as well
wide_base(k) ==
    WithAcousticness(
        WithKey(Row(Text(ListOf(IF k < 3 THEN <<"a">> \o Letters ELSE Letters)),
                    Text(IF k = 2 THEN <<"W">> ELSE <<"V">>),
                    Val((k - 1) * 5000), Val(50), Val(10), Val(50),
                    Val(11000), Ms(200000)),
                Val(0), Val(1)),
        Val(10))

\* a track of the one genre Letters[k] and the artist Capitals[k], of a
\* popularity between 20 and 40 that grows with k, the same for k = 13 and
\* k = 14, a danceability of 0.20 + k / 100, the same for k = 1 and k = 2,
\* and an energy of 0.30 + 2k / 100
wide_peak(k) ==
    WithAcousticness(
        WithKey(Row(Text(ListOf(<<Letters[k]>>)), Text(<<Capitals[k]>>),
                    Val(IF k = 13 THEN 2700 ELSE 2000 + 50 * k), Val(30 + 2 * k),
                    Val(IF k = 1 THEN 22 ELSE 20 + k), Val(50), Val(11000),
                    Ms(200000)),
                Val(k % 12), Val(k % 2)),
        Val(10))

WideRows ==
    [k \in 1..3 |-> wide_base(k)] \o [k \in 1..Len(Letters) |-> wide_peak(k)]

\* the table, the table without one of its first three rows or without
\* one of the two rows of equal popularity, and tables of one row and of two
\* rows
WideTables ==
    {WideRows} \cup {Without(WideRows, i) : i \in {1, 2, 3, 16, 17}}
        \cup {SubSeq(WideRows, 4, 4), SubSeq(WideRows, 4, 5), SubSeq(WideRows, 5, 6)}

\* the requests that differ in the grouping and the limit of the bar chart,
\* in the order of the sparklines, or in the features and the significance
\* of the correlation matrix
WideRequests ==
    {[DefaultRequest EXCEPT !["create_a_bar_chart_with_groupby"] = g,
                            !["create_a_bar_chart_with_limit"] = n] :
       g \in {Name("artists"), Name("key"), Name("mode")},
       n \in {Num(1000), Num(1500)}}
    \cup {[DefaultRequest EXCEPT !["genre_evolution_sparklines_as_sort"] =
                                     Name("max_value")]}
    \cup {[DefaultRequest EXCEPT
              !["audio_feature_correlation_matrix_features"] = ListV(f),
              !["audio_feature_correlation_matrix_significance"] = ListV(e)] :
            f \in {<<"danceability", "energy">>,
                    <<"danceability", "energy", "valence">>},
            e \in {<<>>, <<"enabled">>}}

InitWide ==
    /\ data \in WideTables
    /\ controls \in WideRequests
    /\ cache = <<>>
    /\ bodyRuns = 0
    /\ last = Idle
    /\ nChanges = 0
    /\ nCalls = 0
    /\ first = NotCalled
    /\ second = NotCalled
    /\ NothingLoaded

NextWide ==
    \/ BarUpdate
    \/ EvolutionUpdate
    \/ CorrelationUpdate

SpecWide == InitWide /\ [][NextWide]_vars

\* the group the bar chart puts a row in: the artists string, the name of
\* the key or the name of the mode
GroupName(row, groupby_value) ==
    IF groupby_value = "key" THEN MapNames(row.key, key_names)
    ELSE IF groupby_value = "mode" THEN MapNames(row.mode, mode_names)
    ELSE row.artists

\* the filtered rows of a group
GroupRows(df, groupby_value, name) ==
    SelectSeq(df, LAMBDA r : GroupName(r, groupby_value) = Text(name))

\* the mean popularity of a group of the filtered rows
GroupMean(df, groupby_value, name) ==
    [sum |-> Sum(Present(GroupRows(df, groupby_value, name), "popularity")),
     count |-> Len(Present(GroupRows(df, groupby_value, name), "popularity"))]

\* the groups of the filtered rows
GroupNames(df, groupby_value) ==
    {GroupName(df[i], groupby_value).s :
       i \in {j \in 1..Len(df) : ~GroupName(df[j], groupby_value).na}}

\* the last update drew the bars of the bar chart
BarsShown ==
    last.done /\ last.component = "bar_chart" /\ last.payload.kind = "bar"

\* C21: the bar chart shows at most N groups, N the limit (15 when the
\* control holds None), each group once, in the order of non-increasing mean
\* popularity; the value of a bar is the mean popularity of the filtered rows
\* of its group, and no group left out has a mean above that of a group shown.
C21_BarChartTopGroups ==
    BarsShown =>
        \A df \in {last.filtered.df} :
        \A by \in {BarGroupby(last.kwargs)} :
        \A shown \in {last.payload.grouped} :
            /\ Len(shown) <= BarLimit(last.kwargs)
            /\ \A k \in 1..Len(shown) : \A j \in 1..Len(shown) :
                  /\ k < j => ~MeanLess(shown[k].popularity, shown[j].popularity)
                  /\ k # j => shown[k].group # shown[j].group
            /\ \A k \in 1..Len(shown) :
                  /\ shown[k].group \in GroupNames(df, by)
                  /\ SameMean(shown[k].popularity, GroupMean(df, by, shown[k].group))
            /\ \A g \in GroupNames(df, by) \ {shown[k].group : k \in 1..Len(shown)} :
                  \A k \in 1..Len(shown) :
                     ~MeanLess(shown[k].popularity, GroupMean(df, by, g))

\* the bars are cut to a limit of 10 from more groups, and the first bar is
\* the mean of two rows
C21_Witness ==
    /\ BarsShown
    /\ BarLimit(last.kwargs) = 10
    /\ Len(last.payload.grouped) = 10
    /\ Cardinality(GroupNames(last.filtered.df, BarGroupby(last.kwargs))) > 10
    /\ \E k \in 1..10 : last.payload.grouped[k].popularity.count = 2

\* C22: among groups of equal mean popularity the bar chart keeps the order
\* in which the grouping yields them (the order of the group names): two
\* equal bars are shown in that order, and of two groups of equal mean of
\* which one is cut by the limit, it is the later one that is cut.
C22_TiesKeepGroupOrder ==
    BarsShown =>
        \A df \in {last.filtered.df} :
        \A by \in {BarGroupby(last.kwargs)} :
        \A shown \in {last.payload.grouped} :
            /\ \A k \in 1..Len(shown) : \A j \in 1..Len(shown) :
                  (k < j /\ SameMean(shown[k].popularity, shown[j].popularity))
                      => StrLess(shown[k].group, shown[j].group)
            /\ \A g \in GroupNames(df, by) \ {shown[k].group : k \in 1..Len(shown)} :
                  \A k \in 1..Len(shown) :
                     SameMean(shown[k].popularity, GroupMean(df, by, g))
                         => StrLess(shown[k].group, g)

\* the last update of the sparklines ended with the figure of the genres
SparklinesShown ==
    last.done /\ last.component = "evolution" /\ last.payload.kind = "sparklines"

\* the last update of the sparklines found no genre to show
SparklinesInsufficient ==
    /\ last.done /\ last.component = "evolution"
    /\ last.payload.kind = "Insufficient data for sparklines"

\* the genres of the expanded rows that have rows in at least 3 of the 5
\* bins of the popularity
GenresOfThreeYears(years) ==
    {g \in {years[i].genre : i \in 1..Len(years)} :
       Cardinality({years[i].year : i \in {j \in 1..Len(years) : years[j].genre = g}}) >= 3}

\* the largest, over the bins, of the mean of the feature over the filtered
\* rows of the genre in the bin
PeakOf(df, years, feature, g) ==
    SeriesMax({Only({[sum |-> Sum(values), count |-> Len(values)] :
                     values \in {Present([j \in 1..Len(rows) |-> df[rows[j].row]],
                                         feature)}}) :
               rows \in {SelectSeq(years, LAMBDA e : e.genre = g /\ e.year = y) :
                           y \in {years[i].year : i \in {j \in 1..Len(years) :
                                                           years[j].genre = g}}}})

MatrixShown ==
    last.done /\ last.component = "correlation" /\ last.payload.kind = "correlation"

\* C24: with the significance enabled, a cell of two different features
\* shows '***' iff p < 0.001, '**' iff 0.001 <= p < 0.01, '*' iff
\* 0.01 <= p < 0.05 and no star otherwise; a cell of the diagonal, and a
\* cell whose p-value could not be computed (fewer than 2 rows), has p = 1
\* and no star; with the significance disabled no cell has a star.
C24_SignificanceStars ==
    MatrixShown =>
        \A stars \in {last.payload.stars} :
        \A p \in {last.payload.p_values} :
        \A i \in 1..last.payload.size : \A j \in 1..last.payload.size :
            IF InSeq("enabled", last.kwargs.audio_feature_correlation_matrix_significance.l)
            THEN /\ stars[i][j] \in 0..3
                 /\ i = j => p[i][j] = PValue(10000) /\ stars[i][j] = 0
                 /\ (i # j /\ last.payload.total < 2) =>
                        p[i][j] = PValue(10000) /\ stars[i][j] = 0
                 /\ i # j =>
                      /\ stars[i][j] = 3 <=> (~p[i][j].nan /\ p[i][j].v < 10)
                      /\ stars[i][j] = 2 <=>
                            (~p[i][j].nan /\ 10 <= p[i][j].v /\ p[i][j].v < 100)
                      /\ stars[i][j] = 1 <=>
                            (~p[i][j].nan /\ 100 <= p[i][j].v /\ p[i][j].v < 500)
            ELSE stars[i][j] = 0

\* a matrix of three features with p = 0.001 and two stars in a cell, and
\* no star in the cell of a p-value that is not a number
C24_Witness ==
    /\ MatrixShown
    /\ last.payload.size = 3
    /\ last.payload.show_significance
    /\ last.payload.p_values[1][2] = PValue(10)
    /\ last.payload.stars[1][2] = 2
    /\ last.payload.p_values[1][3].nan
    /\ last.payload.stars[1][3] = 0

\* a genres value that is a list without a token, such as "[]"
NoTokens(cell) == ~cell.na /\ StripSplitStrip(cell.s) = <<>>

\* the rows of the filtered table the last figure has made rows of its own
\* for, one for every genre of the row
GroupedRows ==
    IF last.component = "fingerprint" /\ last.payload.kind = "heatmap"
    THEN {last.payload.genre_tracks[k].row : k \in 1..Len(last.payload.genre_tracks)}
    ELSE IF last.component = "evolution" /\ "df_expanded" \in DOMAIN last.payload
    THEN {last.payload.df_expanded[k].row : k \in 1..Len(last.payload.df_expanded)}
    ELSE IF last.component = "ridgeline" /\ last.payload.kind = "ridgeline"
    THEN {last.payload.df_filtered[k].row : k \in 1..Len(last.payload.df_filtered)}
    ELSE IF last.component = "box_plot" /\ last.payload.kind = "box"
    THEN {last.payload.plot_rows[k].row : k \in 1..Len(last.payload.plot_rows)}
    ELSE {}

\* C25: a track whose genres value is a list without a token, such as "[]",
\* has no row in the fingerprint, the evolution, the ridgeline or the box
\* plot; while the genre filter does not restrict, filter_data keeps the
\* track when it passes the other filters, and the total of the data cards,
\* the row count and the histogram (when the track has the metric) count it.
C25_TracksWithoutGenre ==
    (last.done /\ last.filtered.raised = NoRaise /\ last.raisedInside = NoRaise) =>
        \A df \in {last.filtered.df} :
            /\ \A i \in GroupedRows : ~NoTokens(df[i].genres)
            /\ ~Restricts(LastFilters.genre_multiselect_filter) =>
                  /\ \A i \in 1..Len(data) :
                        (/\ NoTokens(data[i].genres)
                         /\ SatisfiesRanges(data[i], LastFilters)
                         /\ ArtistOk(data[i], LastFilters))
                            => \E j \in 1..Len(df) : df[j] = data[i]
                  /\ (last.component = "data_cards" /\ last.payload.kind = "cards") =>
                        IntOf(Remove(last.payload.total_tracks, {","})) = Len(df)
                  /\ last.component = "display_count" => last.payload.total = Len(df)
                  /\ (last.component = "histogram" /\ last.payload.kind = "histogram") =>
                        Sum(last.payload.counts) =
                            Len(SelectSeq(df, LAMBDA r : ~ToNumeric(r[RequestedMetric]).na))

\* the fingerprint of a table of a track of "[]" and a track of
\* "['pop', 'rock']": both are in the filtered table, the first has no row
\* in the figure
C25_Witness ==
    /\ last.done /\ last.component = "fingerprint" /\ last.payload.kind = "heatmap"
    /\ Len(last.filtered.df) = 2
    /\ \E i \in 1..2 : last.filtered.df[i].genres = Text(s_brackets)
    /\ GroupedRows # {}
    /\ Cardinality(GroupedRows) = 1

-----------------------------------------------------------------------------
(* SpecParsers: one genres string, and the parse of every component that   *)
(* reads the genres column                                                 *)

\* "k's", a genre with an apostrophe; str() writes it between double quotes
s_ks == <<"k", "'", "s">>
Repr(g) == IF \E i \in 1..Len(g) : g[i] = "'" THEN <<"\"">> \o g \o <<"\"">>
           ELSE <<"'">> \o g \o <<"'">>

\* str() of the lists of up to two of the genres, and strings that are not
\* the str() of a list
GenreStrings ==
    {s_brackets}
    \cup {<<"[">> \o Repr(g) \o <<"]">> : g \in {s_pop, s_rock, s_kpop, s_ks}}
    \cup {<<"[">> \o Repr(g) \o <<",", " ">> \o Repr(h) \o <<"]">> :
            g \in {s_pop, s_rock, s_kpop, s_ks}, h \in {s_pop, s_rock, s_kpop, s_ks}}
    \cup {s_pop, <<>>, <<"[", "'", "p", "o", "p", "'", ",", "'", "r", "o", "c", "k", "'", "]">>,
          <<"[", " ", "'", "p", "o", "p", "'", " ", "]">>}

InitParsers ==
    /\ data \in {<<[chart_pop_rock EXCEPT !.genres = Text(g)]>> : g \in GenreStrings}
    /\ controls = DefaultRequest
    /\ cache = <<>>
    /\ bodyRuns = 0
    /\ last = Idle
    /\ nChanges = 0
    /\ nCalls = 0
    /\ first = NotCalled
    /\ second = NotCalled
    /\ NothingLoaded

\* a component has parsed the genres of the row: the exception that ended
\* its update, or the tokens it goes on with
Parsed(component, raised, tokens) ==
    /\ nCalls < MaxChartCalls
    /\ nCalls' = nCalls + 1
    /\ last' = [done |-> TRUE, component |-> component, raised |-> raised,
                tokens |-> tokens]
    /\ UNCHANGED <<data, controls, cache, bodyRuns, nChanges, first, second>>
    /\ UNCHANGED layoutVars

FilterOptionsParse ==
    \E tokens \in {parse_filter_options(data[1].genres)} :
        Parsed("filter_component", NoRaise, tokens)

FingerprintParse ==
    \E r \in {parse_fingerprint(data[1].genres)} :
        Parsed("fingerprint", NoRaise, r.genres)

EvolutionParse ==
    \E tokens \in {parse_evolution(data[1].genres)} :
        Parsed("evolution", NoRaise, tokens)

RidgelineParse ==
    \E tokens \in {parse_ridgeline(data[1].genres)} :
        Parsed("ridgeline", NoRaise, tokens)

BoxPlotParse ==
    \E r \in {parse_box_plot(data[1].genres)} :
        Parsed("box_plot", r.raised, r.genres)

\* the overlay skips the row when eval raised
OverlayParse ==
    \E r \in {parse_overlay(data[1].genres)} :
        Parsed("tempo_energy", NoRaise, r.genres)

\* Hit_formula_scatter_chart.py lines 118-120: eval(x), of which the first
\* item is shown; an exception of eval ends the update
HitFormulaParse ==
    \E r \in {IF data[1].genres.s = s_brackets
              THEN [raised |-> NoRaise, list |-> <<>>]
              ELSE Eval(data[1].genres.s)} :
        Parsed("hit_formula", r.raised, r.list)

NextParsers ==
    \/ FilterOptionsParse
    \/ FingerprintParse
    \/ EvolutionParse
    \/ RidgelineParse
    \/ BoxPlotParse
    \/ OverlayParse
    \/ HitFormulaParse

SpecParsers == InitParsers /\ [][NextParsers]_vars

\* C26: every component that parses the genres column derives the same
\* tokens from the same string: what the ridgeline, the box plot, the
\* tempo-energy overlay and the hit-formula scatter make of a string is what
\* the strip, split and strip-quotes parse of the filter options, the
\* fingerprint and the evolution makes of it, and none of them raises.
C26_ParsersAgree ==
    last.done =>
        /\ last.raised = NoRaise
        /\ last.tokens = StripSplitStrip(data[1].genres.s)

\* some token of the genres of the row is one of the selected genres
TokenSelected(r, sel) ==
    \E k \in 1..Len(GenreTokens(r.genres)) : InSeq(GenreTokens(r.genres)[k], sel.l)

TotalTracksShown ==
    IF ~last.done THEN {}
    ELSE IF last.summary.kind = "cards" THEN {last.summary.total}
    ELSE IF last.component = "data_cards" /\ last.payload.kind = "cards"
    THEN {IntOf(Remove(last.payload.total_tracks, {","}))}
    ELSE {}

\* C28: for a filter set, every component that shows a 'Total Tracks' shows
\* the same number, the number of rows of filter_data(T, F) that
\* display_count reports.
C28_SameTotalTracks ==
    \A total \in TotalTracksShown :
        total = display_count(Env(<<>>, 0, data), LastFilters).out.payload.total

-----------------------------------------------------------------------------
(* SpecHistory: several updates in a row, of several components, between *)
(* changes of the request                                                *)

\* two tracks of the charts: both with genres, and one of them without
HistoryTables == {Pick(ChartRows, {1, 2}), Pick(ChartRows, {1, 4})}

\* the requests of a session: the defaults, a genre selection, the bars
\* grouped by key, and both
HistoryRequests ==
    {[DefaultRequest EXCEPT !["genre_multiselect_filter"] = genre,
                            !["create_a_bar_chart_with_groupby"] = groupby] :
       genre \in {DefaultRequest["genre_multiselect_filter"], ListV(<<s_pop>>)},
       groupby \in {Name("artists"), Name("key")}}

InitHistory ==
    /\ data \in HistoryTables
    /\ controls \in HistoryRequests
    /\ cache = <<>>
    /\ bodyRuns = 0
    /\ last = Idle
    /\ nChanges = 0
    /\ nCalls = 0
    /\ first = Idle
    /\ second = NotCalled
    /\ NothingLoaded

\* the user changes the filters or the controls of the bar chart
ChangeRequest ==
    /\ nChanges < MaxChanges
    /\ controls' \in HistoryRequests \ {controls}
    /\ nChanges' = nChanges + 1
    /\ UNCHANGED <<data, cache, bodyRuns, last, nCalls, first, second>>
    /\ UNCHANGED layoutVars

\* an update completes; first keeps the update before it
HistoryCompletes(r) ==
    /\ nCalls < MaxCalls
    /\ nCalls' = nCalls + 1
    /\ cache' = r.env.cache
    /\ bodyRuns' = r.env.runs
    /\ data' = r.env.data
    /\ last' = r.out
    /\ first' = last
    /\ UNCHANGED <<controls, nChanges, second>>
    /\ UNCHANGED layoutVars

\* what a component is called with in a request
HistoryInputs(component) ==
    CASE component = "bar_chart" -> BarInputs
      [] component = "histogram" -> HistogramInputs
      [] OTHER -> FilterNames

\* the results the update of a component can return in an environment
ComponentUpdate(component, env, kwargs) ==
    CASE component = "bar_chart" -> Bar_update(env, kwargs)
      [] component = "histogram" -> {Histogram_update(env, kwargs)}
      [] component = "data_cards" -> {DataCards_update(env, kwargs)}
      [] component = "data_table" -> {update_table(env, kwargs)}
      [] OTHER -> {display_count(env, kwargs)}

BarHistoryUpdate ==
    \E r \in ComponentUpdate("bar_chart", Env(cache, bodyRuns, data),
                              Restrict(controls, HistoryInputs("bar_chart"))) :
        HistoryCompletes(r)

HistogramHistoryUpdate ==
    \E r \in ComponentUpdate("histogram", Env(cache, bodyRuns, data),
                              Restrict(controls, HistoryInputs("histogram"))) :
        HistoryCompletes(r)

DataCardsHistoryUpdate ==
    \E r \in ComponentUpdate("data_cards", Env(cache, bodyRuns, data),
                              Restrict(controls, HistoryInputs("data_cards"))) :
        HistoryCompletes(r)

TableHistoryUpdate ==
    \E r \in ComponentUpdate("data_table", Env(cache, bodyRuns, data),
                              Restrict(controls, HistoryInputs("data_table"))) :
        HistoryCompletes(r)

DisplayCountHistoryUpdate ==
    \E r \in ComponentUpdate("display_count", Env(cache, bodyRuns, data),
                              Restrict(controls, HistoryInputs("display_count"))) :
        HistoryCompletes(r)

NextHistory ==
    \/ ChangeRequest
    \/ BarHistoryUpdate
    \/ HistogramHistoryUpdate
    \/ DataCardsHistoryUpdate
    \/ TableHistoryUpdate
    \/ DisplayCountHistoryUpdate

SpecHistory == InitHistory /\ [][NextHistory]_vars

\* what the caller of an update sees of it: the table filter_data gave it,
\* the exception, the error output, the figure or the cards, the summary
ResultOf(out) ==
    [df |-> out.filtered.df, raised |-> out.filtered.raised,
     raisedInside |-> out.raisedInside, propagated |-> out.propagated,
     err |-> out.err, payload |-> out.payload, summary |-> out.summary]

\* the results of the request in a process that has served no request yet
FreshResults(component, kwargs) ==
    {ResultOf(r.out) : r \in ComponentUpdate(component, Env(<<>>, 0, data), kwargs)}

\* C29: the result of an update depends on the filter values and on the
\* controls of the component only: whatever updates came before it, of
\* whichever components, served from the cache or not, the update returns
\* what the same request returns in a process that has served none.
C29_HistoryIndependent ==
    last.done => ResultOf(last) \in FreshResults(last.component, last.kwargs)

\* a bar chart grouped by key has added its column to the table it was
\* given, and the same request, after it and another update, is served from
\* the cache
C29_Witness ==
    /\ nCalls = 3
    /\ first.done /\ first.component = "bar_chart"
    /\ BarGroupby(first.kwargs) = "key"
    /\ first.frame # first.filtered.df
    /\ ~first.filtered.hit
    /\ last.done /\ last.component = "bar_chart"
    /\ last.kwargs = first.kwargs
    /\ last.filtered.hit
    /\ Len(last.filtered.df) > 0

\* C30: filter_data is total over the data: on every table, rows with a
\* missing genres or artists field or a missing numeric value included, and
\* every filter set whose range bounds are numbers and whose category
\* selections are lists (a selection of a genre included), it returns a
\* table and raises nothing.
C30_FilterDataTotal ==
    (first.done /\ RangeBoundsNumeric(Filters) /\ SelectionsAreLists(Filters))
        => first.raised = NoRaise

====
